---- MODULE Spec2Model ----
(***************************************************************************)
(* The browser-agent execution loop (executeGoal) with its executor        *)
(* (executeMultiAction / executeSingleAction), the Navigator and Planner   *)
(* response parsers, the DOM-change detector and the session pool.         *)
(* Collaborator calls (browser automation, language model, pool) are the   *)
(* environment: each either returns a value drawn from a small set or      *)
(* throws.  A run is started with or without resumeOptions.  The pool is   *)
(* also modelled on its own, under callers and runs that overlap at their  *)
(* await points.                                                           *)
(***************************************************************************)
EXTENDS Integers, Sequences, FiniteSets, TLC

VARIABLES
    options,            \* ExecutionOptions.browserOptions / visionOptions of the run
    pc,                 \* position of executeGoal (its await points)
    pool,               \* browserPool.browsers: the session ids registered
    step,               \* let step
    consecutiveErrors,  \* let consecutiveErrors
    plannerOutput,      \* let plannerOutput: PlannerOutput | null
    aiCallsCount,       \* let aiCallsCount
    history,            \* const history: ActionRecord[]
    playwrightActions,  \* const playwrightActions: PlaywrightAction[]
    actions,            \* const actions: ExecutionResult['actions'] (the raw action log)
    page,               \* url, title and elements read at the start of the step
    batch,              \* navigatorOutput.action of the step
    results,            \* executeMultiAction: const results
    batchPos,           \* executeMultiAction: the loop variable i
    errorCount,         \* executeMultiAction: let errorCount
    result,             \* the ExecutionResult returned (kind "none" until then)
    faults,             \* number of collaborator calls that threw so far
    closeCalls,         \* observer: invocations of browserPool.closeBrowser
    plannerCalls,       \* observer: invocations of runPlanner
    navigatorCalls,     \* observer: invocations of runNavigator
    thrownAt,           \* observer: where the exception caught at the top level arose
    execLog,            \* observer: the executeSingleAction calls of the current batch
    domAbortAt,         \* observer: position at which the DOM-change check stopped the batch
    reindexFailed,      \* observer: positions whose in-batch re-index threw
    executedOk,         \* observer: replay form of every action that really succeeded
    zeroRun,            \* observer: completed steps in a row without a real success
    emptyRun,           \* observer: completed steps in a row whose batch was empty
    navAllWait,         \* observer: every Navigator output so far was a single wait
    navFallback,        \* observer: the last / every Navigator response was unparseable
    plannerDoneAt,      \* observer: step at which the Planner returned done (0: never)
    navAtDone,          \* observer: navigatorCalls when the Planner returned done
    aiCallsAtStepStart, \* observer: aiCallsCount when the current step began
    navGuidance,        \* observer: the plannerNextSteps argument of the last runNavigator
    cookieSave,         \* observer: the saveStorageState call of the run
    correction,         \* observer: what became of the human correction
    fnIn,               \* the arguments of a function applied on its own
    fnOut,              \* what that function returned
    browsers,           \* BrowserPool.browsers: session id -> the registered browser
    launched,           \* every browser a launch call produced, with the id it was for
    closed,             \* the browsers whose close() resolved
    poolCalls,          \* the launchBrowser / closeBrowser calls made on the pool directly
    runs,               \* concurrent executeGoal runs: position, locals and pool call
    actor               \* observer: the run that took the last step (0: none yet)

vars == << options, pc, pool, step, consecutiveErrors, plannerOutput, aiCallsCount,
           history, playwrightActions, actions, page, batch, results, batchPos,
           errorCount, result, faults, closeCalls, plannerCalls, navigatorCalls, thrownAt,
           execLog, domAbortAt, reindexFailed, executedOk, zeroRun, emptyRun, navAllWait,
           navFallback, plannerDoneAt, navAtDone, aiCallsAtStepStart, navGuidance, cookieSave,
           correction, fnIn, fnOut, browsers, launched, closed, poolCalls, runs, actor >>

(***************************************************************************)
(* Bounds of the model.                                                    *)
(***************************************************************************)
MaxSteps == 7
MaxFaults == 1
MaxBatch == 5
MaxHistory == 3
MaxEls == 7
MaxResumeSteps == 2
MaxVisits == 3
MaxReorder == 4
MaxCalls == 3
MaxRunSteps == 2

(***************************************************************************)
(* Program constants.                                                      *)
(***************************************************************************)
MAX_CONSECUTIVE_ERRORS == 5
MAX_ERRORS == 3
NAVIGATOR_ACTION_LIMIT == 10

NoIndex == -1
NoError == << >>
NoCall == << >>
SessionId == "agent_1"

(***************************************************************************)
(* Action items (navigator.ts ActionItem): the tag and the index argument. *)
(***************************************************************************)
IndexTargeted == {"click_element", "input_text", "scroll_to_element", "hover", "select_option"}

Click(n) == [type |-> "click_element", index |-> n, hasArgs |-> TRUE]
Hover(n) == [type |-> "hover", index |-> n, hasArgs |-> TRUE]
WaitItem == [type |-> "wait", index |-> NoIndex, hasArgs |-> TRUE]
DoneItem == [type |-> "done", index |-> NoIndex, hasArgs |-> TRUE]
NullItem == [type |-> "#null", index |-> NoIndex, hasArgs |-> FALSE]

\* An item whose argument bag is null, e.g. {"click_element": null}: getActionArgs
\* returns null for it.
NullArgsItem(t) == [type |-> t, index |-> NoIndex, hasArgs |-> FALSE]

KnownTypes == IndexTargeted \cup {"go_to_url", "send_keys", "scroll_down", "scroll_up",
                                  "wait", "done"}

(***************************************************************************)
(* Snapshots: what getIndexedElements can return, indices 0..n-1.          *)
(***************************************************************************)
El(i, s) == [index |-> i, selector |-> s]

SnapTwo == << El(0, "#a"), El(1, "#b") >>
SnapSwapped == << El(0, "#b"), El(1, "#a") >>
SnapOne == << El(0, "#b") >>

Snapshots == {SnapTwo, SnapSwapped, SnapOne}

PageStates ==
    { [url |-> "u1", title |-> "t1", elements |-> SnapTwo],
      [url |-> "u2", title |-> "t2", elements |-> SnapOne] }

NoPage == [url |-> "", title |-> "", elements |-> << >>]

(***************************************************************************)
(* elementIndexer.ts hasSignificantDOMChange.  countDiff > old * 0.2 and   *)
(* newCount > old * 0.3 are compared in integers (x5, x10).                *)
(***************************************************************************)
Abs(x) == IF x < 0 THEN -x ELSE x

Selectors(els) == {els[k].selector : k \in 1..Len(els)}

NewCount(oldElements, newElements) ==
    Cardinality({k \in 1..Len(newElements) :
                    newElements[k].selector \notin Selectors(oldElements)})

hasSignificantDOMChange_AtLeast(oldElements, newElements) ==
    \/ 5 * Abs(Len(oldElements) - Len(newElements)) >= Len(oldElements)
    \/ 10 * NewCount(oldElements, newElements) >= 3 * Len(oldElements)

hasSignificantDOMChange(oldElements, newElements) ==
    \/ 5 * Abs(Len(oldElements) - Len(newElements)) > Len(oldElements)
    \/ 10 * NewCount(oldElements, newElements) > 3 * Len(oldElements)

(***************************************************************************)
(* elements.find((e) => e.index === index)                                 *)
(***************************************************************************)
HasIndex(els, n) == \E k \in 1..Len(els) : els[k].index = n

FindElement(els, n) == els[CHOOSE k \in 1..Len(els) : els[k].index = n
                              /\ \A j \in 1..(k - 1) : els[j].index # n]

(***************************************************************************)
(* navigator.ts parseNavigatorResponse.  A raw response is text that is    *)
(* not JSON ("garbage"), JSON whose action is an array ("array": items     *)
(* may be null), JSON whose action is one object ("object"), or JSON with  *)
(* no usable action ("missing").                                           *)
(***************************************************************************)
RawNav(k, its) == [kind |-> k, items |-> its]

IsObjectItem(a) == a.type # "#null"

parseNavigatorResponse_EmptyOnGarbage(response) ==
    IF response.kind \in {"garbage", "missing"}
    THEN << >>
    ELSE IF response.kind = "array"
         THEN SelectSeq(response.items, IsObjectItem)
         ELSE << response.items[1] >>

parseNavigatorResponse(response) ==
    IF response.kind = "garbage"
    THEN << WaitItem >>
    ELSE LET parsed == IF response.kind = "array"
                       THEN SelectSeq(response.items, IsObjectItem)
                       ELSE IF response.kind = "object"
                            THEN << response.items[1] >>
                            ELSE << >>
         IN  IF Len(parsed) > NAVIGATOR_ACTION_LIMIT
             THEN SubSeq(parsed, 1, NAVIGATOR_ACTION_LIMIT)
             ELSE parsed

(***************************************************************************)
(* planner parsePlannerResponse: the fields the loop reads.                *)
(***************************************************************************)
RawPlan(k, d, n) == [kind |-> k, done |-> d, next_steps |-> n]

NoPlannerOutput == [present |-> FALSE, done |-> FALSE, next_steps |-> ""]

parsePlannerResponse_DoneOnGarbage(response) ==
    IF response.kind = "garbage"
    THEN [present |-> TRUE, done |-> TRUE, next_steps |-> ""]
    ELSE [present |-> TRUE, done |-> response.done, next_steps |-> response.next_steps]

parsePlannerResponse(response) ==
    IF response.kind = "garbage"
    THEN [present |-> TRUE, done |-> FALSE,
          next_steps |-> "Continue with the current approach"]
    ELSE [present |-> TRUE, done |-> response.done, next_steps |-> response.next_steps]

(***************************************************************************)
(* executionLoop.ts executeSingleAction.  callOk says whether the browser  *)
(* call the action makes (if any) resolves; call is the call it made.      *)
(***************************************************************************)
ActionResult(s, e, d) == [success |-> s, error |-> e, isDone |-> d]

executeSingleAction_Guess(action, elements, callOk) ==
    IF action.type \in KnownTypes /\ ~action.hasArgs
    THEN [res |-> ActionResult(FALSE, << "TypeError" >>, FALSE), call |-> NoCall]
    ELSE IF action.type \in IndexTargeted
    THEN IF Len(elements) = 0
         THEN [res |-> ActionResult(FALSE, << "Element not found", action.index >>, FALSE),
               call |-> NoCall]
         ELSE [res |-> IF callOk THEN ActionResult(TRUE, NoError, FALSE)
                       ELSE ActionResult(FALSE, << "Browser error" >>, FALSE),
               call |-> << action.type,
                           (IF HasIndex(elements, action.index)
                            THEN FindElement(elements, action.index)
                            ELSE elements[1]).selector >>]
    ELSE IF action.type = "wait"
    THEN [res |-> IF callOk THEN ActionResult(TRUE, NoError, FALSE)
                  ELSE ActionResult(FALSE, << "Browser error" >>, FALSE),
          call |-> << "wait", "" >>]
    ELSE IF action.type = "done"
    THEN [res |-> ActionResult(TRUE, NoError, TRUE), call |-> NoCall]
    ELSE [res |-> ActionResult(FALSE, << "Unknown action type", action.type >>, FALSE),
          call |-> NoCall]

executeSingleAction(action, elements, callOk) ==
    IF action.type \in KnownTypes /\ ~action.hasArgs
    THEN [res |-> ActionResult(FALSE, << "TypeError" >>, FALSE), call |-> NoCall]
    ELSE IF action.type \in IndexTargeted
    THEN IF ~HasIndex(elements, action.index)
         THEN [res |-> ActionResult(FALSE, << "Element not found", action.index >>, FALSE),
               call |-> NoCall]
         ELSE [res |-> IF callOk THEN ActionResult(TRUE, NoError, FALSE)
                       ELSE ActionResult(FALSE, << "Browser error" >>, FALSE),
               call |-> << action.type, FindElement(elements, action.index).selector >>]
    ELSE IF action.type = "wait"
    THEN [res |-> IF callOk THEN ActionResult(TRUE, NoError, FALSE)
                  ELSE ActionResult(FALSE, << "Browser error" >>, FALSE),
          call |-> << "wait", "" >>]
    ELSE IF action.type = "done"
    THEN [res |-> ActionResult(TRUE, NoError, TRUE), call |-> NoCall]
    ELSE [res |-> ActionResult(FALSE, << "Unknown action type", action.type >>, FALSE),
          call |-> NoCall]

(***************************************************************************)
(* executionLoop.ts mapToPlaywrightAction: << >> models null.              *)
(***************************************************************************)
PwOperation(t) ==
    CASE t = "click_element" -> "click"
      [] t = "input_text" -> "fill"
      [] t = "scroll_to_element" -> "scroll"
      [] t = "hover" -> "hover"
      [] t = "select_option" -> "selectOption"
      [] OTHER -> t

mapToPlaywrightAction(action, elements) ==
    IF action.type \in IndexTargeted
    THEN IF HasIndex(elements, action.index)
         THEN << [operation |-> PwOperation(action.type),
                  selector |-> FindElement(elements, action.index).selector] >>
         ELSE << >>
    ELSE IF action.type = "wait"
    THEN << [operation |-> "wait", selector |-> ""] >>
    ELSE << >>

(***************************************************************************)
(* executeGoal, "Process results": the for loop over results, from the     *)
(* k-th result on.  out is "end" (loop ran to its end), "done" (a result   *)
(* with isDone) or "throw" (navigatorOutput.action[i] is undefined, so     *)
(* getActionType throws, or its argument bag is null, so actionArgs.index  *)
(* throws before anything is recorded).                                    *)
(***************************************************************************)
\* an entry of ExecutionResult['actions']
RawAction(op, i, sel, ok) == [operation |-> op, index |-> i, selector |-> sel, success |-> ok]

ElementSelector(action, elements) ==
    IF HasIndex(elements, action.index) THEN FindElement(elements, action.index).selector ELSE ""

RECURSIVE ProcessResultsFrom(_, _, _, _, _)
ProcessResultsFrom(k, hist, acts, pw, had) ==
    IF k > Len(results)
    THEN [history |-> hist, actions |-> acts, pw |-> pw, had |-> had, out |-> "end"]
    ELSE IF k > Len(batch) \/ ~batch[k].hasArgs
    THEN [history |-> hist, actions |-> acts, pw |-> pw, had |-> had, out |-> "throw"]
    ELSE LET action == batch[k]
             r == results[k]
             hist2 == Append(hist, [operation |-> action.type, index |-> action.index,
                                    success |-> r.success, error |-> r.error])
             acts2 == Append(acts, RawAction(action.type, action.index,
                                             ElementSelector(action, page.elements),
                                             r.success))
             logIt == r.success /\ action.type # "done"
             pw2 == IF logIt THEN pw \o mapToPlaywrightAction(action, page.elements) ELSE pw
             had2 == had \/ logIt
         IN  IF r.isDone
             THEN [history |-> hist2, actions |-> acts2, pw |-> pw2, had |-> had2,
                   out |-> "done"]
             ELSE ProcessResultsFrom(k + 1, hist2, acts2, pw2, had2)

(***************************************************************************)
(* browserPool.ts closeBrowser: browser.close() can reject, and then the   *)
(* session stays registered.                                               *)
(***************************************************************************)
CloseThrows(ok) == SessionId \in pool /\ ~ok

closeBrowser(ok) == IF SessionId \in pool /\ ok THEN pool \ {SessionId} ELSE pool

(***************************************************************************)
(* Inputs of the run.                                                      *)
(***************************************************************************)
OptionProfiles ==
    { [planningInterval |-> 3, maxActionsPerStep |-> 10, saveCookies |-> FALSE],
      [planningInterval |-> 2, maxActionsPerStep |-> 2, saveCookies |-> TRUE] }

(***************************************************************************)
(* ExecutionOptions.resumeOptions.  A PlaywrightAction is its operation and *)
(* its selector ("" when it has none; for a navigate the field holds the   *)
(* url).  A human correction is a direct action, an element chosen by      *)
(* index with an operation, a free-text instruction, or absent.            *)
(***************************************************************************)
Pw(op, sel) == [operation |-> op, selector |-> sel]

NoCorrection == [kind |-> "none"]
DirectCorrection(a) == [kind |-> "action", action |-> a]
ElementCorrection(i, op) == [kind |-> "element", elementIndex |-> i, operation |-> op]
InstructionCorrection == [kind |-> "instruction"]

ResumeOptions(prev, url, c) ==
    [present |-> TRUE, previousActions |-> prev, resumeUrl |-> url, humanCorrection |-> c]

NoResume ==
    [present |-> FALSE, previousActions |-> << >>, resumeUrl |-> "",
     humanCorrection |-> NoCorrection]

PreviousActions == << Pw("click", "#p"), Pw("fill", "#q") >>

LongResume == ResumeOptions(PreviousActions, "u2", NoCorrection)

ResumeProfiles ==
    { LongResume,
      ResumeOptions(PreviousActions, "", DirectCorrection(Pw("click", "#a"))),
      ResumeOptions(PreviousActions, "u1", DirectCorrection(Pw("hover", ""))),
      ResumeOptions(PreviousActions, "", ElementCorrection(1, "click")),
      ResumeOptions(<< >>, "", ElementCorrection(0, "press")),
      ResumeOptions(PreviousActions, "", InstructionCorrection) }

\* const playwrightActions = options.resumeOptions?.previousActions
\*     ? [...options.resumeOptions.previousActions] : []
InitialPlaywrightActions_Empty(resumeOptions) == << >>

InitialPlaywrightActions(resumeOptions) ==
    IF resumeOptions.present THEN resumeOptions.previousActions ELSE << >>

NavResponses ==
    { RawNav("garbage", << >>),
      RawNav("missing", << >>),
      RawNav("object", << WaitItem >>),
      RawNav("array", << >>),
      RawNav("array", << NullItem, DoneItem >>),
      RawNav("array", << Click(1) >>),
      RawNav("array", << NullArgsItem("click_element") >>),
      RawNav("array", << Click(2), Hover(1) >>),
      RawNav("array", << Click(2), WaitItem, DoneItem >>) }

PlannerResponses ==
    { RawPlan("garbage", FALSE, ""),
      RawPlan("json", TRUE, ""),
      RawPlan("json", FALSE, "A") }

ExecItems == {Click(2), Hover(1), WaitItem, DoneItem}

RECURSIVE SeqsUpTo(_, _)
SeqsUpTo(S, n) ==
    IF n = 0 THEN {<< >>}
    ELSE LET shorter == SeqsUpTo(S, n - 1)
         IN  shorter \cup {Append(s, x) : s \in shorter, x \in S}

(***************************************************************************)
(* The ExecutionResult: what executeGoal returns.                          *)
(***************************************************************************)
NoContext == [currentUrl |-> "", currentTitle |-> "", elements |-> << >>,
              lastError |-> NoError, suggestedAction |-> ""]

Result(k, s, e, h, c) ==
    [kind |-> k, success |-> s, error |-> e, needsHumanHelp |-> h, humanHelpContext |-> c]

NoResult == Result("none", FALSE, "", FALSE, NoContext)

LastError == IF Len(history) = 0 THEN NoError ELSE history[Len(history)].error

HumanHelpContext ==
    [currentUrl |-> page.url, currentTitle |-> page.title, elements |-> page.elements,
     lastError |-> LastError, suggestedAction |-> plannerOutput.next_steps]

CanFault == faults < MaxFaults

BoolToNat(b) == IF b THEN 1 ELSE 0

loopVars == << step, consecutiveErrors, plannerOutput, aiCallsCount, history,
               playwrightActions, actions, page >>
execVars == << batch, results, batchPos, errorCount >>
execObs == << execLog, domAbortAt, reindexFailed >>
runObs == << plannerCalls, navigatorCalls, executedOk, zeroRun, emptyRun, navAllWait,
             navFallback, plannerDoneAt, navAtDone, aiCallsAtStepStart, navGuidance, cookieSave,
             correction >>
fnVars == << fnIn, fnOut >>
poolVars == << browsers, launched, closed, poolCalls, runs, actor >>

\* the pool of a specification that has no concurrent callers
PoolUnused ==
    /\ browsers = << >>
    /\ launched = {}
    /\ closed = {}
    /\ poolCalls = << >>
    /\ runs = << >>
    /\ actor = 0

NoInput == [fn |-> "none"]
NoOutput == [returned |-> FALSE]

NoCookieSave == [calls |-> 0, failed |-> FALSE, closeCallsBefore |-> -1, at |-> ""]

InitCommon ==
    /\ step = 0
    /\ consecutiveErrors = 0
    /\ plannerOutput = NoPlannerOutput
    /\ aiCallsCount = 0
    /\ history = << >>
    /\ actions = << >>
    /\ results = << >>
    /\ batchPos = 0
    /\ errorCount = 0
    /\ result = NoResult
    /\ faults = 0
    /\ closeCalls = 0
    /\ plannerCalls = 0
    /\ navigatorCalls = 0
    /\ thrownAt = "none"
    /\ execLog = << >>
    /\ domAbortAt = -1
    /\ reindexFailed = {}
    /\ executedOk = << >>
    /\ zeroRun = 0
    /\ emptyRun = 0
    /\ navAllWait = TRUE
    /\ navFallback = [last |-> FALSE, every |-> TRUE]
    /\ plannerDoneAt = 0
    /\ navAtDone = 0
    /\ aiCallsAtStepStart = 0
    /\ navGuidance = ""
    /\ cookieSave = NoCookieSave
    /\ correction = "none"
    /\ fnOut = NoOutput

Init ==
    /\ InitCommon
    /\ PoolUnused
    /\ fnIn = NoInput
    /\ \E n \in 1..MaxSteps, o \in OptionProfiles, r \in {NoResume} \cup ResumeProfiles :
          /\ r.present =>
                (n <= MaxResumeSteps \/ (n = MaxSteps /\ r = LongResume /\ ~o.saveCookies))
          /\ options = [maxSteps |-> n, planningInterval |-> o.planningInterval,
                        maxActionsPerStep |-> o.maxActionsPerStep,
                        saveCookies |-> o.saveCookies, resumeOptions |-> r]
    /\ playwrightActions = InitialPlaywrightActions(options.resumeOptions)
    /\ pc = "launch"
    /\ pool = {}
    /\ page = NoPage
    /\ batch = << >>

(***************************************************************************)
(* executeGoal: browserPool.launchBrowser and getPage.                     *)
(***************************************************************************)
LaunchBrowser ==
    /\ pc = "launch"
    /\ \/ /\ pool' = pool \cup {SessionId}
          /\ pc' = IF options.resumeOptions.present THEN "resume" ELSE "loop"
          /\ UNCHANGED << faults, thrownAt >>
       \/ /\ CanFault
          /\ faults' = faults + 1
          /\ thrownAt' = "launch"
          /\ pc' = "catch"
          /\ UNCHANGED pool
    /\ UNCHANGED << options, loopVars, execVars, result, closeCalls, execObs, runObs >>
    /\ UNCHANGED fnVars
    /\ UNCHANGED poolVars

(***************************************************************************)
(* executeGoal, "Handle resume from human intervention": page.goto of the  *)
(* resume url, which is then logged.                                       *)
(***************************************************************************)
ResumeNavigate ==
    /\ pc = "resume"
    /\ IF options.resumeOptions.resumeUrl # ""
       THEN \/ /\ playwrightActions' =
                      Append(playwrightActions, Pw("navigate", options.resumeOptions.resumeUrl))
               /\ pc' = "correct"
               /\ UNCHANGED << faults, thrownAt >>
            \/ /\ CanFault
               /\ faults' = faults + 1
               /\ thrownAt' = "resume"
               /\ pc' = "catch"
               /\ UNCHANGED playwrightActions
       ELSE /\ pc' = "correct"
            /\ UNCHANGED << playwrightActions, faults, thrownAt >>
    /\ UNCHANGED << options, pool, step, consecutiveErrors, plannerOutput, aiCallsCount, history,
                    actions, page, execVars, result, closeCalls, execObs, runObs >>
    /\ UNCHANGED fnVars
    /\ UNCHANGED poolVars

(***************************************************************************)
(* executionLoop.ts executeHumanAction, for the operations click, fill,    *)
(* hover, selectOption (a selector is required), scroll and wait; any      *)
(* other operation of the inputs is unknown to it.  A browser call that    *)
(* throws is caught and becomes a failed result.                           *)
(***************************************************************************)
SelectorOperations == {"click", "fill", "hover", "selectOption"}

executeHumanAction(action, callOk) ==
    IF action.operation \in SelectorOperations /\ action.selector = ""
    THEN [res |-> ActionResult(FALSE, << "Selector required" >>, FALSE), call |-> NoCall]
    ELSE IF action.operation \in SelectorOperations \cup {"scroll", "wait"}
    THEN [res |-> IF callOk THEN ActionResult(TRUE, NoError, FALSE)
                  ELSE ActionResult(FALSE, << "Browser error" >>, FALSE),
          call |-> << action.operation, action.selector >>]
    ELSE [res |-> ActionResult(FALSE, << "Unknown operation", action.operation >>, FALSE),
          call |-> NoCall]

(***************************************************************************)
(* executionLoop.ts executeHumanElementAction: the PlaywrightAction made,  *)
(* or << >> for null (unsupported operation, or the browser call threw).   *)
(***************************************************************************)
ElementOperations == {"click", "fill", "hover"}

executeHumanElementAction_LogsAnyway(element, operation, callOk) ==
    [made |-> << Pw(operation, element.selector) >>,
     call |-> IF operation \in ElementOperations
              THEN << operation, element.selector >> ELSE NoCall]

executeHumanElementAction(element, operation, callOk) ==
    IF operation \in ElementOperations
    THEN [made |-> IF callOk THEN << Pw(operation, element.selector) >> ELSE << >>,
          call |-> << operation, element.selector >>]
    ELSE [made |-> << >>, call |-> NoCall]

(***************************************************************************)
(* executeGoal, "Apply human correction if provided".                      *)
(***************************************************************************)
\* what the observer notes: the correction's browser call was made and resolved
CorrectionOutcome(call, callOk) == IF call # NoCall /\ callOk THEN "applied" ELSE "failed"

ApplyHumanCorrection ==
    /\ pc = "correct"
    /\ LET c == options.resumeOptions.humanCorrection
       IN  \/ \* no correction, or an instruction left to the Navigator
              /\ c.kind \in {"none", "instruction"}
              /\ pc' = "loop"
              /\ UNCHANGED << playwrightActions, actions, faults, thrownAt, correction >>
           \/ \* if (correction.action): direct action from human
              /\ c.kind = "action"
              /\ \E callOk \in BOOLEAN :
                    LET x == executeHumanAction(c.action, callOk)
                    IN  /\ ~callOk => (x.call # NoCall /\ CanFault)
                        /\ faults' = faults + BoolToNat(~callOk)
                        /\ correction' = CorrectionOutcome(x.call, callOk)
                        /\ IF x.res.success
                           THEN /\ playwrightActions' = Append(playwrightActions, c.action)
                                /\ actions' = Append(actions,
                                                     RawAction(c.action.operation, NoIndex,
                                                               c.action.selector, TRUE))
                           ELSE UNCHANGED << playwrightActions, actions >>
              /\ pc' = "loop"
              /\ UNCHANGED thrownAt
           \/ \* else if (correction.elementIndex !== undefined && correction.operation)
              /\ c.kind = "element"
              /\ \/ /\ \E p \in PageStates, callOk \in BOOLEAN :
                          IF HasIndex(p.elements, c.elementIndex)
                          THEN LET element == FindElement(p.elements, c.elementIndex)
                                   x == executeHumanElementAction(element, c.operation,
                                                                  callOk)
                               IN  /\ ~callOk => (x.call # NoCall /\ CanFault)
                                   /\ faults' = faults + BoolToNat(~callOk)
                                   /\ playwrightActions' = playwrightActions \o x.made
                                   /\ actions' =
                                         IF x.made # << >>
                                         THEN Append(actions,
                                                     RawAction(c.operation, c.elementIndex,
                                                               element.selector, TRUE))
                                         ELSE actions
                                   /\ correction' = CorrectionOutcome(x.call, callOk)
                          ELSE /\ callOk
                               /\ correction' = "absent"
                               /\ UNCHANGED << playwrightActions, actions, faults >>
                    /\ pc' = "loop"
                    /\ UNCHANGED thrownAt
                 \/ \* getIndexedElements throws
                    /\ CanFault
                    /\ faults' = faults + 1
                    /\ thrownAt' = "correct"
                    /\ pc' = "catch"
                    /\ UNCHANGED << playwrightActions, actions, correction >>
    /\ UNCHANGED << options, pool, step, consecutiveErrors, plannerOutput, aiCallsCount, history,
                    page, execVars, result, closeCalls, execObs, plannerCalls, navigatorCalls,
                    executedOk, zeroRun, emptyRun, navAllWait, navFallback, plannerDoneAt,
                    navAtDone,
                    aiCallsAtStepStart, navGuidance, cookieSave >>
    /\ UNCHANGED fnVars
    /\ UNCHANGED poolVars

(***************************************************************************)
(* executeGoal: while (step < maxSteps) { step++; getIndexedElements,      *)
(* page.url, page.title, drawBoundingBoxes }.                              *)
(***************************************************************************)
LoopCondition_OffByOne == step <= options.maxSteps

LoopCondition_Unbounded == TRUE

LoopCondition == step < options.maxSteps

IndexPage ==
    /\ pc = "loop"
    /\ LoopCondition
    /\ step' = step + 1
    /\ \/ /\ \E p \in PageStates : page' = p
          /\ pc' = "decide"
          /\ UNCHANGED << faults, thrownAt >>
       \/ /\ CanFault
          /\ faults' = faults + 1
          /\ thrownAt' = "index"
          /\ pc' = "catch"
          /\ UNCHANGED page
    /\ aiCallsAtStepStart' = aiCallsCount
    /\ UNCHANGED << options, pool, consecutiveErrors, plannerOutput, aiCallsCount, history,
                    playwrightActions, actions, execVars, result, closeCalls, execObs,
                    plannerCalls, navigatorCalls, executedOk, zeroRun, emptyRun, navAllWait,
                    navFallback,
                    plannerDoneAt, navAtDone, navGuidance, cookieSave, correction >>
    /\ UNCHANGED fnVars
    /\ UNCHANGED poolVars

(***************************************************************************)
(* A closing exit of executeGoal: await browserPool.closeBrowser(sessionId)*)
(* and then return r; if the close throws, the top-level catch takes over. *)
(***************************************************************************)
CloseAndReturn_SwallowsFailure(r) ==
    /\ closeCalls' = closeCalls + 1
    /\ result' = r
    /\ pc' = "returned"
    /\ \/ /\ pool' = closeBrowser(TRUE)
          /\ UNCHANGED << faults, thrownAt >>
       \/ /\ CanFault
          /\ CloseThrows(FALSE)
          /\ pool' = closeBrowser(FALSE)
          /\ faults' = faults + 1
          /\ thrownAt' = "close"

CloseAndReturn(r) ==
    /\ closeCalls' = closeCalls + 1
    /\ \/ /\ pool' = closeBrowser(TRUE)
          /\ result' = r
          /\ pc' = "returned"
          /\ UNCHANGED << faults, thrownAt >>
       \/ /\ CanFault
          /\ CloseThrows(FALSE)
          /\ pool' = closeBrowser(FALSE)
          /\ faults' = faults + 1
          /\ thrownAt' = "close"
          /\ pc' = "catch"
          /\ UNCHANGED result

(***************************************************************************)
(* executeGoal: the loop condition fails, "Max steps reached".             *)
(***************************************************************************)
MaxStepsReached_NoClose ==
    /\ pc = "loop"
    /\ ~LoopCondition
    /\ result' = Result("maxSteps", FALSE, "Max steps reached", FALSE, NoContext)
    /\ pc' = "returned"
    /\ UNCHANGED << options, pool, loopVars, execVars, faults, closeCalls, thrownAt, execObs,
                    runObs >>
    /\ UNCHANGED fnVars
    /\ UNCHANGED poolVars

MaxStepsReached ==
    /\ pc = "loop"
    /\ ~LoopCondition
    /\ CloseAndReturn(Result("maxSteps", FALSE, "Max steps reached", FALSE, NoContext))
    /\ UNCHANGED << options, loopVars, execVars, execObs, runObs >>
    /\ UNCHANGED fnVars
    /\ UNCHANGED poolVars

(***************************************************************************)
(* executeGoal: if (consecutiveErrors >= MAX_CONSECUTIVE_ERRORS).          *)
(***************************************************************************)
EscalationDue_OneLate == consecutiveErrors > MAX_CONSECUTIVE_ERRORS

EscalationDue == consecutiveErrors >= MAX_CONSECUTIVE_ERRORS

Escalate ==
    /\ pc = "decide"
    /\ EscalationDue
    /\ CloseAndReturn(Result("needsHumanHelp", FALSE, "AI is stuck", TRUE, HumanHelpContext))
    /\ UNCHANGED << options, loopVars, execVars, execObs, runObs >>
    /\ UNCHANGED fnVars
    /\ UNCHANGED poolVars

(***************************************************************************)
(* executeGoal: shouldRunPlanner and the Planner call.                     *)
(***************************************************************************)
shouldRunPlanner_EveryStep == TRUE

shouldRunPlanner ==
    \/ step = 1
    \/ (options.planningInterval # 0 /\ step % options.planningInterval = 0)
    \/ plannerOutput.done

AfterPlanner_IgnoreDone(out) == "navigate"

\* if (plannerOutput.done) { ... return } else the Navigator is run
AfterPlanner(out) == IF out.done THEN "plannerDone" ELSE "navigate"

RunPlanner ==
    /\ pc = "decide"
    /\ ~EscalationDue
    /\ shouldRunPlanner
    /\ plannerCalls' = plannerCalls + 1
    /\ \/ /\ \E r \in PlannerResponses :
                /\ plannerOutput' = parsePlannerResponse(r)
                /\ pc' = AfterPlanner(parsePlannerResponse(r))
                /\ plannerDoneAt' = IF parsePlannerResponse(r).done THEN step ELSE plannerDoneAt
                /\ navAtDone' = IF parsePlannerResponse(r).done THEN navigatorCalls ELSE navAtDone
          /\ aiCallsCount' = aiCallsCount + 1
          /\ UNCHANGED << faults, thrownAt >>
       \/ /\ CanFault
          /\ faults' = faults + 1
          /\ thrownAt' = "plan"
          /\ pc' = "catch"
          /\ UNCHANGED << plannerOutput, aiCallsCount, plannerDoneAt, navAtDone >>
    /\ UNCHANGED << options, pool, step, consecutiveErrors, history, playwrightActions,
                    actions, page, execVars, result, closeCalls, execObs, navigatorCalls,
                    executedOk, zeroRun, emptyRun, navAllWait, navFallback, aiCallsAtStepStart,
                    navGuidance,
                    cookieSave, correction >>
    /\ UNCHANGED fnVars
    /\ UNCHANGED poolVars

(***************************************************************************)
(* executeGoal: the two success exits (Planner done, Navigator done):      *)
(* takeScreenshotBase64 catches its own errors, saveStorageState is        *)
(* called when a cookie path is set, and closeBrowser can throw out.       *)
(***************************************************************************)
\* const cookiePath = options.browserOptions.saveCookies ? getCookiePath(domain) : undefined
CookiePathSet_Always == TRUE

CookiePathSet == options.saveCookies

\* try { await browserPool.saveStorageState(sessionId, cookiePath) } catch (e) { log }
\* A failure of this call is swallowed on the spot, so it is not limited by MaxFaults.
FinishSuccess ==
    /\ pc \in {"plannerDone", "navigatorDone"}
    /\ IF CookiePathSet
       THEN \E saveOk \in BOOLEAN :
               cookieSave' = [calls |-> cookieSave.calls + 1, failed |-> ~saveOk,
                              closeCallsBefore |-> closeCalls, at |-> pc]
       ELSE UNCHANGED cookieSave
    /\ CloseAndReturn(Result("success", TRUE, "", FALSE, NoContext))
    /\ UNCHANGED << options, loopVars, execVars, execObs, plannerCalls, navigatorCalls,
                    executedOk, zeroRun, emptyRun, navAllWait, navFallback, plannerDoneAt,
                    navAtDone,
                    aiCallsAtStepStart, navGuidance, correction >>
    /\ UNCHANGED fnVars
    /\ UNCHANGED poolVars

(***************************************************************************)
(* executeGoal: the Navigator call; the batch is navigatorOutput.action.   *)
(* maxActionsPerStep is passed to runNavigator, which puts it in the       *)
(* prompt only.                                                            *)
(***************************************************************************)
runNavigator(response, maxActionsPerStep) == parseNavigatorResponse(response)

\* the plannerNextSteps argument: plannerOutput?.next_steps || ''
PlannerNextSteps_Blank == ""

PlannerNextSteps == IF plannerOutput.present THEN plannerOutput.next_steps ELSE ""

RunNavigator ==
    /\ \/ pc = "navigate"
       \/ pc = "decide" /\ ~EscalationDue /\ ~shouldRunPlanner
    /\ navigatorCalls' = navigatorCalls + 1
    /\ navGuidance' = PlannerNextSteps
    /\ \/ /\ \E r \in NavResponses :
                /\ Len(history) + Len(runNavigator(r, options.maxActionsPerStep)) <= MaxHistory
                /\ batch' = runNavigator(r, options.maxActionsPerStep)
                /\ navAllWait' = (navAllWait /\ batch' = << WaitItem >>)
                /\ navFallback' = [last |-> r.kind = "garbage",
                                   every |-> navFallback.every /\ r.kind = "garbage"]
          /\ aiCallsCount' = aiCallsCount + 1
          /\ results' = << >>
          /\ batchPos' = 0
          /\ errorCount' = 0
          /\ execLog' = << >>
          /\ domAbortAt' = -1
          /\ reindexFailed' = {}
          /\ pc' = "exec"
          /\ UNCHANGED << faults, thrownAt >>
       \/ /\ CanFault
          /\ faults' = faults + 1
          /\ thrownAt' = "navigate"
          /\ pc' = "catch"
          /\ UNCHANGED << aiCallsCount, execVars, execObs, navAllWait, navFallback >>
    /\ UNCHANGED << options, pool, step, consecutiveErrors, plannerOutput, history,
                    playwrightActions, actions, page, result, closeCalls, plannerCalls,
                    executedOk, zeroRun, emptyRun, plannerDoneAt, navAtDone, aiCallsAtStepStart,
                    cookieSave, correction >>
    /\ UNCHANGED fnVars
    /\ UNCHANGED poolVars

(***************************************************************************)
(* executeMultiAction: one iteration of the for loop (i = batchPos).       *)
(***************************************************************************)
NoSnapshot == << >>

\* if (i > 0) { newElements = await getIndexedElements(page);
\*              if (hasSignificantDOMChange(elements, newElements)) break; }
StopsBatch_AfterSecond(i, newElements) ==
    i > 1 /\ hasSignificantDOMChange(page.elements, newElements)

StopsBatch(i, newElements) == i > 0 /\ hasSignificantDOMChange(page.elements, newElements)

\* executeSingleAction(page, actionType, actionArgs, elements, timeout): elements is
\* the parameter of executeMultiAction, not newElements
BatchSnapshot_Reindexed(newElements) ==
    IF newElements = NoSnapshot THEN page.elements ELSE newElements

BatchSnapshot(newElements) == page.elements

ReindexResults(i) == IF i = 0 THEN {NoSnapshot} ELSE Snapshots

ReplayOf(action, call) == [operation |-> PwOperation(action.type), selector |-> call[2]]

ExecuteAction ==
    /\ pc = "exec"
    /\ batchPos < Len(batch)
    /\ errorCount < MAX_ERRORS
    /\ \/ \* the re-index throws: the catch records a failure and the loop goes on
          /\ batchPos > 0
          /\ CanFault
          /\ faults' = faults + 1
          /\ results' = Append(results, ActionResult(FALSE, << "Reindex error" >>, FALSE))
          /\ errorCount' = errorCount + 1
          /\ batchPos' = batchPos + 1
          /\ reindexFailed' = reindexFailed \cup {batchPos}
          /\ UNCHANGED << pc, execLog, domAbortAt, executedOk >>
       \/ \* the re-index differs significantly: break
          /\ \E s \in ReindexResults(batchPos) : StopsBatch(batchPos, s)
          /\ pc' = "record"
          /\ domAbortAt' = batchPos
          /\ UNCHANGED << faults, results, errorCount, batchPos, reindexFailed, execLog,
                          executedOk >>
       \/ \* the action is executed, then page.waitForTimeout(1000)
          /\ \E s \in ReindexResults(batchPos), callOk \in BOOLEAN, waitOk \in BOOLEAN :
                LET action == batch[batchPos + 1]
                    x == executeSingleAction(action, BatchSnapshot(s), callOk)
                    callFault == ~callOk
                    waitFault == ~waitOk
                IN  /\ ~StopsBatch(batchPos, s)
                    /\ callFault => x.call # NoCall
                    /\ waitFault => ~x.res.isDone
                    /\ faults + BoolToNat(callFault) + BoolToNat(waitFault) <= MaxFaults
                    /\ faults' = faults + BoolToNat(callFault) + BoolToNat(waitFault)
                    /\ results' = IF waitFault
                                  THEN results \o << x.res,
                                           ActionResult(FALSE, << "Wait error" >>, FALSE) >>
                                  ELSE Append(results, x.res)
                    /\ errorCount' = errorCount + BoolToNat(~x.res.success)
                                                + BoolToNat(waitFault)
                    /\ batchPos' = batchPos + 1
                    /\ pc' = IF x.res.isDone THEN "record" ELSE "exec"
                    /\ execLog' = Append(execLog, [pos |-> batchPos, action |-> action,
                                                   seen |-> s, call |-> x.call,
                                                   res |-> x.res])
                    /\ executedOk' = IF x.res.success /\ action.type # "done"
                                     THEN Append(executedOk, ReplayOf(action, x.call))
                                     ELSE executedOk
          /\ UNCHANGED << domAbortAt, reindexFailed >>
    /\ UNCHANGED << options, pool, loopVars, batch, result, closeCalls, thrownAt,
                    plannerCalls, navigatorCalls, zeroRun, emptyRun, navAllWait, navFallback,
                    plannerDoneAt,
                    navAtDone, aiCallsAtStepStart, navGuidance, cookieSave, correction >>
    /\ UNCHANGED fnVars
    /\ UNCHANGED poolVars

BatchEnded ==
    \/ pc = "record"
    \/ pc = "exec" /\ (batchPos >= Len(batch) \/ errorCount >= MAX_ERRORS)

(***************************************************************************)
(* executeGoal: "Process results", "Track consecutive errors" and the      *)
(* delay between steps.                                                    *)
(***************************************************************************)
RealSuccessInBatch ==
    \E k \in 1..Len(execLog) : execLog[k].res.success /\ execLog[k].action.type # "done"

TrackConsecutiveErrors_SkipsEmpty(stepHadSuccess) ==
    IF stepHadSuccess THEN 0
    ELSE IF batch = << >> THEN consecutiveErrors ELSE consecutiveErrors + 1

TrackConsecutiveErrors(stepHadSuccess) ==
    IF stepHadSuccess THEN 0 ELSE consecutiveErrors + 1

ProcessResults ==
    /\ BatchEnded
    /\ LET p == ProcessResultsFrom(1, history, actions, playwrightActions, FALSE)
       IN  /\ history' = p.history
           /\ actions' = p.actions
           /\ playwrightActions' = p.pw
           /\ \/ /\ p.out = "end"
                 /\ consecutiveErrors' = TrackConsecutiveErrors(p.had)
                 /\ zeroRun' = IF RealSuccessInBatch THEN 0 ELSE zeroRun + 1
                 /\ emptyRun' = IF batch = << >> THEN emptyRun + 1 ELSE 0
                 /\ pc' = "loop"
                 /\ UNCHANGED thrownAt
              \/ /\ p.out = "done"
                 /\ pc' = "navigatorDone"
                 /\ UNCHANGED << consecutiveErrors, zeroRun, emptyRun, thrownAt >>
              \/ /\ p.out = "throw"
                 /\ pc' = "catch"
                 /\ thrownAt' = "record"
                 /\ UNCHANGED << consecutiveErrors, zeroRun, emptyRun >>
    /\ UNCHANGED << options, pool, step, plannerOutput, aiCallsCount, page, execVars, result,
                    faults, closeCalls, execObs, plannerCalls, navigatorCalls, executedOk,
                    navAllWait, navFallback, plannerDoneAt, navAtDone, aiCallsAtStepStart,
                    navGuidance,
                    cookieSave, correction >>
    /\ UNCHANGED fnVars
    /\ UNCHANGED poolVars

(***************************************************************************)
(* executeGoal: catch (error) { try { closeBrowser } catch {} return }.    *)
(***************************************************************************)
CatchError_NoClose ==
    /\ pc = "catch"
    /\ result' = Result("error", FALSE, thrownAt, FALSE, NoContext)
    /\ pc' = "returned"
    /\ UNCHANGED << options, pool, loopVars, execVars, faults, closeCalls, thrownAt, execObs,
                    runObs >>
    /\ UNCHANGED fnVars
    /\ UNCHANGED poolVars

CatchError_CloseFailurePropagates ==
    /\ pc = "catch"
    /\ closeCalls' = closeCalls + 1
    /\ \E ok \in BOOLEAN :
          /\ ~ok => CloseThrows(ok)
          /\ pool' = closeBrowser(ok)
          /\ faults' = faults + BoolToNat(~ok)
          /\ result' = IF ok THEN Result("error", FALSE, thrownAt, FALSE, NoContext) ELSE result
          /\ pc' = IF ok THEN "returned" ELSE "propagated"
    /\ UNCHANGED << options, loopVars, execVars, thrownAt, execObs, runObs >>
    /\ UNCHANGED fnVars
    /\ UNCHANGED poolVars

\* The close inside the handler is the last call of the run, so its failure is not
\* limited by MaxFaults.
CatchError ==
    /\ pc = "catch"
    /\ closeCalls' = closeCalls + 1
    /\ \E ok \in BOOLEAN :
          /\ ~ok => CloseThrows(ok)
          /\ pool' = closeBrowser(ok)
          /\ faults' = faults + BoolToNat(~ok)
    /\ result' = Result("error", FALSE, thrownAt, FALSE, NoContext)
    /\ pc' = "returned"
    /\ UNCHANGED << options, loopVars, execVars, thrownAt, execObs, runObs >>
    /\ UNCHANGED fnVars
    /\ UNCHANGED poolVars

Next ==
    \/ LaunchBrowser
    \/ ResumeNavigate
    \/ ApplyHumanCorrection
    \/ IndexPage
    \/ MaxStepsReached
    \/ Escalate
    \/ RunPlanner
    \/ FinishSuccess
    \/ RunNavigator
    \/ ExecuteAction
    \/ ProcessResults
    \/ CatchError

Spec == Init /\ [][Next]_vars

(***************************************************************************)
(* The executor alone: executeMultiAction on any batch of up to MaxBatch   *)
(* actions and any snapshot.                                               *)
(***************************************************************************)
InitExec ==
    /\ InitCommon
    /\ PoolUnused
    /\ fnIn = NoInput
    /\ options = [maxSteps |-> 1, planningInterval |-> 3, maxActionsPerStep |-> 10,
                  saveCookies |-> FALSE, resumeOptions |-> NoResume]
    /\ playwrightActions = << >>
    /\ pc = "exec"
    /\ pool = {SessionId}
    /\ \E p \in PageStates : page = p
    /\ batch \in SeqsUpTo(ExecItems, MaxBatch)

NextExec == ExecuteAction

SpecExec == InitExec /\ [][NextExec]_vars

(***************************************************************************)
(* executionLoop.ts detectFieldType.  An attribute of an element is the    *)
(* sequence of its words; a pattern alternative is a sequence of words     *)
(* that must occur next to each other (\s* also lets them be written as    *)
(* one word).                                                              *)
(***************************************************************************)
toLowerCase(w) ==
    CASE w = "Email" -> "email"
      [] w = "Address" -> "address"
      [] w = "First" -> "first"
      [] w = "Name" -> "name"
      [] w = "Phone" -> "phone"
      [] w = "Submit" -> "submit"
      [] OTHER -> w

LowerWords(ws) == [k \in 1..Len(ws) |-> toLowerCase(ws[k])]

Combined(element) ==
    LowerWords(element.text) \o LowerWords(element.placeholder)
        \o LowerWords(element.ariaLabel) \o LowerWords(element.selector)
        \o LowerWords(element.type)

OccursIn(term, words) ==
    \E k \in 1..(Len(words) - Len(term) + 1) : SubSeq(words, k, k + Len(term) - 1) = term

FieldPattern(alts, t) == [alternatives |-> alts, fieldType |-> t]

patterns ==
    << FieldPattern({<<"full", "name">>, <<"fullname">>, <<"your", "name">>, <<"yourname">>},
                    "name"),
       FieldPattern({<<"first", "name">>, <<"firstname">>, <<"given", "name">>,
                     <<"givenname">>, <<"fname">>}, "firstName"),
       FieldPattern({<<"last", "name">>, <<"lastname">>, <<"family", "name">>,
                     <<"familyname">>, <<"surname">>, <<"lname">>}, "lastName"),
       FieldPattern({<<"email">>, <<"e-mail">>}, "email"),
       FieldPattern({<<"phone">>, <<"telephone">>, <<"mobile">>, <<"cell">>}, "phone"),
       FieldPattern({<<"address">>, <<"street">>}, "address"),
       FieldPattern({<<"city">>, <<"town">>}, "city"),
       FieldPattern({<<"state">>, <<"province">>, <<"region">>}, "state"),
       FieldPattern({<<"zip">>, <<"postal">>, <<"postcode">>}, "zip"),
       FieldPattern({<<"country">>}, "country"),
       FieldPattern({<<"linkedin">>}, "linkedin"),
       FieldPattern({<<"github">>}, "github"),
       FieldPattern({<<"website">>, <<"portfolio">>, <<"url">>}, "website"),
       FieldPattern({<<"company">>, <<"employer">>, <<"organization">>}, "company"),
       FieldPattern({<<"title">>, <<"position">>, <<"job", "title">>, <<"jobtitle">>,
                     <<"role">>}, "jobTitle"),
       FieldPattern({<<"cover", "letter">>, <<"coverletter">>}, "coverLetter"),
       FieldPattern({<<"summary">>, <<"about">>, <<"bio">>, <<"introduction">>}, "summary"),
       FieldPattern({<<"salary">>, <<"compensation">>, <<"expected", "salary">>,
                     <<"expectedsalary">>}, "salary"),
       FieldPattern({<<"start", "date">>, <<"startdate">>, <<"availability">>,
                     <<"available">>}, "startDate") >>

PatternMatches(k, element) ==
    \E term \in patterns[k].alternatives : OccursIn(term, Combined(element))

NoFieldInfo == [found |-> FALSE, fieldType |-> ""]

detectFieldType(element) ==
    IF \E k \in 1..Len(patterns) : PatternMatches(k, element)
    THEN LET first == CHOOSE k \in 1..Len(patterns) :
                          /\ PatternMatches(k, element)
                          /\ \A j \in 1..(k - 1) : ~PatternMatches(j, element)
         IN  [found |-> TRUE, fieldType |-> patterns[first].fieldType]
    ELSE NoFieldInfo

(***************************************************************************)
(* executionLoop.ts mapToPlaywrightAction, case 'input_text': the          *)
(* valueSource of the fill action.  A data context is absent, or carries   *)
(* a resume profile (the field types it has a value for), or carries none. *)
(***************************************************************************)
NoValueSource == [type |-> "undefined", fieldType |-> ""]

DataContext(p, r, f) == [present |-> p, hasResume |-> r, resume |-> f]

mapInputText(element, dataContext) ==
    LET fieldInfo == detectFieldType(element)
    IN  [operation |-> "fill",
         selector |-> element.selector,
         valueSource |->
             IF fieldInfo.found /\ dataContext.present /\ dataContext.hasResume
             THEN IF fieldInfo.fieldType \in dataContext.resume
                  THEN [type |-> "resume", fieldType |-> fieldInfo.fieldType]
                  ELSE NoValueSource
             ELSE IF fieldInfo.found
                  THEN [type |-> "expression", fieldType |-> fieldInfo.fieldType]
                  ELSE NoValueSource]

FieldWords == {<< >>, <<"Email", "Address">>, <<"First", "Name">>, <<"Phone">>,
               <<"Submit">>, <<"city">>}

FieldElements ==
    { [text |-> t, placeholder |-> h, ariaLabel |-> << >>, selector |-> c,
       type |-> <<"input">>] :
         t \in {<< >>, <<"Submit">>, <<"Name">>}, h \in FieldWords,
         c \in {<<"#q">>, <<"#", "email">>} }

DataContexts ==
    { DataContext(FALSE, FALSE, {}), DataContext(TRUE, FALSE, {}),
      DataContext(TRUE, TRUE, {}), DataContext(TRUE, TRUE, {"email", "firstName"}) }

ApplyMapInputText ==
    /\ pc = "fn"
    /\ fnIn.fn = "mapInputText"
    /\ fnOut' = [returned |-> TRUE, value |-> mapInputText(fnIn.element, fnIn.dataContext)]
    /\ pc' = "fnDone"
    /\ UNCHANGED << options, pool, loopVars, execVars, result, faults, closeCalls, thrownAt,
                    execObs, runObs, fnIn >>
    /\ UNCHANGED poolVars

(***************************************************************************)
(* elementIndexer.ts hasSignificantDOMChange on snapshots of up to MaxEls  *)
(* elements: the new snapshot keeps some selectors of the old one and has  *)
(* some the old one lacks.                                                 *)
(***************************************************************************)
OldSnapshot(n) == [i \in 1..n |-> El(i - 1, i)]

NewSnapshot(kept, fresh) ==
    [i \in 1..(kept + fresh) |-> El(i - 1, IF i <= kept THEN i ELSE MaxEls + i)]

\* the same elements indexed again in another order: position k holds the element
\* that was at position order[k]
Orders(n) == {f \in [1..n -> 1..n] : \A i, j \in 1..n : f[i] = f[j] => i = j}

Reordered(oldElements, order) ==
    [k \in 1..Len(oldElements) |-> El(k - 1, oldElements[order[k]].selector)]

ApplyHasSignificantDOMChange ==
    /\ pc = "fn"
    /\ fnIn.fn = "hasSignificantDOMChange"
    /\ fnOut' = [returned |-> TRUE,
                 value |-> hasSignificantDOMChange(fnIn.oldElements, fnIn.newElements)]
    /\ pc' = "fnDone"
    /\ UNCHANGED << options, pool, loopVars, execVars, result, faults, closeCalls, thrownAt,
                    execObs, runObs, fnIn >>
    /\ UNCHANGED poolVars

(***************************************************************************)
(* elementIndexer.ts drawBoundingBoxes: three browser calls in a row with  *)
(* no try/finally (inject the highlight container, take the screenshot,    *)
(* remove the container).  throwsAt names the call that throws.  The       *)
(* injecting script appends the container as its last statement, so a      *)
(* throwing injection leaves none; effect says whether the removing script *)
(* still ran when its evaluate throws.  containers counts the highlight    *)
(* containers left in the DOM.                                             *)
(***************************************************************************)
DrawCalls == {"none", "inject", "screenshot", "remove"}

drawBoundingBoxes(elements, throwsAt, effect) ==
    CASE throwsAt = "inject" ->
            [threw |-> TRUE, containers |-> 0, boxes |-> 0]
      [] throwsAt = "screenshot" ->
            [threw |-> TRUE, containers |-> 1, boxes |-> 0]
      [] throwsAt = "remove" ->
            [threw |-> TRUE, containers |-> IF effect THEN 0 ELSE 1, boxes |-> 0]
      [] OTHER ->
            [threw |-> FALSE, containers |-> 0, boxes |-> Len(elements)]

ApplyDrawBoundingBoxes ==
    /\ pc = "fn"
    /\ fnIn.fn = "drawBoundingBoxes"
    /\ \E effect \in BOOLEAN :
          fnOut' = [returned |-> TRUE,
                    value |-> drawBoundingBoxes(fnIn.elements, fnIn.throwsAt, effect)]
    /\ pc' = "fnDone"
    /\ UNCHANGED << options, pool, loopVars, execVars, result, faults, closeCalls, thrownAt,
                    execObs, runObs, fnIn >>
    /\ UNCHANGED poolVars

(***************************************************************************)
(* navigator.ts parseNavigatorResponse and planner parsePlannerResponse on *)
(* raw responses.                                                          *)
(***************************************************************************)
LongBatch == [k \in 1..(NAVIGATOR_ACTION_LIMIT + 2) |-> IF k % 2 = 0 THEN WaitItem ELSE Click(0)]

RawNavResponses ==
    NavResponses \cup { RawNav("array", << NullItem >>),
                        RawNav("array", LongBatch),
                        RawNav("object", << DoneItem >>) }

ApplyParseNavigatorResponse ==
    /\ pc = "fn"
    /\ fnIn.fn = "parseNavigatorResponse"
    /\ fnOut' = [returned |-> TRUE, value |-> parseNavigatorResponse(fnIn.response)]
    /\ pc' = "fnDone"
    /\ UNCHANGED << options, pool, loopVars, execVars, result, faults, closeCalls, thrownAt,
                    execObs, runObs, fnIn >>
    /\ UNCHANGED poolVars

ApplyParsePlannerResponse ==
    /\ pc = "fn"
    /\ fnIn.fn = "parsePlannerResponse"
    /\ fnOut' = [returned |-> TRUE, value |-> parsePlannerResponse(fnIn.response)]
    /\ pc' = "fnDone"
    /\ UNCHANGED << options, pool, loopVars, execVars, result, faults, closeCalls, thrownAt,
                    execObs, runObs, fnIn >>
    /\ UNCHANGED poolVars

(***************************************************************************)
(* elementIndexer.ts getIndexedElements.  visits is the sequence of        *)
(* elements the querySelectorAll loops come across, one entry per match,   *)
(* so an element that matches two selectors is visited twice.  skip says   *)
(* which test drops the element: "hidden" (display none or visibility      *)
(* hidden), "zero" (zero width or height), "off" (far outside the          *)
(* viewport) or "none".  The selector of an element is made from its       *)
(* identity.                                                               *)
(***************************************************************************)
Visit(e, why) == [el |-> e, skip |-> why]

SkipReasons == {"none", "hidden", "zero", "off"}

DomElements == {1, 2, 3}

\* index: index++ is evaluated only when an element is pushed
NextIndex_CountsSkipped(index, pushed) == index + 1

NextIndex(index, pushed) == IF pushed THEN index + 1 ELSE index

RECURSIVE IndexFrom(_, _, _, _, _)
IndexFrom(visits, k, seen, index, elements) ==
    IF k > Len(visits)
    THEN elements
    ELSE LET v == visits[k]
         IN  IF v.el \in seen
             THEN IndexFrom(visits, k + 1, seen, index, elements)
             ELSE IF v.skip # "none"
             THEN IndexFrom(visits, k + 1, seen \cup {v.el}, NextIndex(index, FALSE),
                            elements)
             ELSE IndexFrom(visits, k + 1, seen \cup {v.el}, NextIndex(index, TRUE),
                            Append(elements, El(index, v.el)))

getIndexedElements(visits) == IndexFrom(visits, 1, {}, 0, << >>)

ApplyGetIndexedElements ==
    /\ pc = "fn"
    /\ fnIn.fn = "getIndexedElements"
    /\ fnOut' = [returned |-> TRUE, value |-> getIndexedElements(fnIn.visits)]
    /\ pc' = "fnDone"
    /\ UNCHANGED << options, pool, loopVars, execVars, result, faults, closeCalls, thrownAt,
                    execObs, runObs, fnIn >>
    /\ UNCHANGED poolVars

(***************************************************************************)
(* The functions applied on their own, to arguments drawn from small sets. *)
(***************************************************************************)
InitFn ==
    /\ InitCommon
    /\ PoolUnused
    /\ options = [maxSteps |-> 1, planningInterval |-> 3, maxActionsPerStep |-> 10,
                  saveCookies |-> FALSE, resumeOptions |-> NoResume]
    /\ playwrightActions = << >>
    /\ pc = "fn"
    /\ pool = {}
    /\ page = NoPage
    /\ batch = << >>
    /\ \/ \E e \in FieldElements, d \in DataContexts :
             fnIn = [fn |-> "mapInputText", element |-> e, dataContext |-> d]
       \/ \E n \in 0..MaxEls :
             \E kept \in 0..n :
                \E fresh \in 0..(MaxEls - kept) :
                   fnIn = [fn |-> "hasSignificantDOMChange", oldElements |-> OldSnapshot(n),
                           newElements |-> NewSnapshot(kept, fresh)]
       \/ \E n \in 0..MaxReorder :
             \E order \in Orders(n) :
                fnIn = [fn |-> "hasSignificantDOMChange", oldElements |-> OldSnapshot(n),
                        newElements |-> Reordered(OldSnapshot(n), order)]
       \/ \E els \in Snapshots \cup {<< >>}, c \in DrawCalls :
             fnIn = [fn |-> "drawBoundingBoxes", elements |-> els, throwsAt |-> c]
       \/ \E r \in RawNavResponses : fnIn = [fn |-> "parseNavigatorResponse", response |-> r]
       \/ \E r \in PlannerResponses : fnIn = [fn |-> "parsePlannerResponse", response |-> r]
       \/ \E v \in SeqsUpTo({Visit(e, why) : e \in DomElements, why \in SkipReasons},
                            MaxVisits) :
             fnIn = [fn |-> "getIndexedElements", visits |-> v]

NextFn ==
    \/ ApplyGetIndexedElements
    \/ ApplyMapInputText
    \/ ApplyHasSignificantDOMChange
    \/ ApplyDrawBoundingBoxes
    \/ ApplyParseNavigatorResponse
    \/ ApplyParsePlannerResponse

SpecFn == InitFn /\ [][NextFn]_vars

(***************************************************************************)
(* humanDelay.ts BrowserPool.  browsers is the Map: a function whose       *)
(* domain is the set of registered session ids.  A call on the pool is     *)
(* [op, sid, pc, browser]: pc is the await point the call is suspended at  *)
(* ("start": called, nothing run yet), browser is its local `browser`      *)
(* (launchBrowser) or `instance.browser` (closeBrowser).  Calls interleave *)
(* at their await points, as promises on one event loop do.                *)
(***************************************************************************)
NoBrowser == 0

MapHas(m, sid) == sid \in DOMAIN m

MapSet(m, sid, b) == [x \in DOMAIN m \cup {sid} |-> IF x = sid THEN b ELSE m[x]]

MapDelete(m, sid) == [x \in DOMAIN m \ {sid} |-> m[x]]

PoolCall(op, sid) == [op |-> op, sid |-> sid, pc |-> "start", browser |-> NoBrowser]

\* what a step of a pool call leaves behind: the call and the pool
PoolStep(call, m, l, c) == [call |-> call, browsers |-> m, launched |-> l, closed |-> c]

\* launchBrowser: if (this.browsers.has(sessionId)) return; await pw.launch();
\* await browser.newContext(); await context.newPage(); this.browsers.set(...).
\* b is the browser pw.launch returns; ok says whether the awaited call resolves.
BrowserPool_launchBrowser(call, b, ok) ==
    IF call.pc = "start"
    THEN IF MapHas(browsers, call.sid)
         THEN PoolStep([call EXCEPT !.pc = "done"], browsers, launched, closed)
         ELSE PoolStep([call EXCEPT !.pc = "launch"], browsers, launched, closed)
    ELSE IF call.pc = "launch"
    THEN IF ok
         THEN PoolStep([call EXCEPT !.pc = "context", !.browser = b], browsers,
                       launched \cup {[browser |-> b, sid |-> call.sid]}, closed)
         ELSE PoolStep([call EXCEPT !.pc = "threw"], browsers, launched, closed)
    ELSE IF ok
         THEN PoolStep([call EXCEPT !.pc = "done"],
                       MapSet(browsers, call.sid, call.browser), launched, closed)
         ELSE PoolStep([call EXCEPT !.pc = "threw"], browsers, launched, closed)

\* closeBrowser: const instance = this.browsers.get(sessionId);
\* if (instance) { await instance.browser.close(); this.browsers.delete(sessionId) }
BrowserPool_closeBrowser_ClosesAll(call, ok) ==
    IF call.pc = "start"
    THEN IF MapHas(browsers, call.sid)
         THEN PoolStep([call EXCEPT !.pc = "close", !.browser = browsers[call.sid]],
                       browsers, launched, closed)
         ELSE PoolStep([call EXCEPT !.pc = "done"], browsers, launched, closed)
    ELSE IF ok
         THEN PoolStep([call EXCEPT !.pc = "done"], << >>, launched,
                       closed \cup {browsers[x] : x \in DOMAIN browsers})
         ELSE PoolStep([call EXCEPT !.pc = "threw"], browsers, launched, closed)

BrowserPool_closeBrowser(call, ok) ==
    IF call.pc = "start"
    THEN IF MapHas(browsers, call.sid)
         THEN PoolStep([call EXCEPT !.pc = "close", !.browser = browsers[call.sid]],
                       browsers, launched, closed)
         ELSE PoolStep([call EXCEPT !.pc = "done"], browsers, launched, closed)
    ELSE IF ok
         THEN PoolStep([call EXCEPT !.pc = "done"], MapDelete(browsers, call.sid),
                       launched, closed \cup {call.browser})
         ELSE PoolStep([call EXCEPT !.pc = "threw"], browsers, launched, closed)

\* a suspended call can be resumed; only an awaited call can throw
Suspended(call) == call.pc \in {"start", "launch", "context", "close"}

CanThrow(call) == call.pc \in {"launch", "context", "close"}

(***************************************************************************)
(* The pool under direct callers (launch.operation.ts execute and the      *)
(* nodes that close a session): MaxCalls calls, each a launchBrowser or a  *)
(* closeBrowser for one of the session ids, started in any order.          *)
(***************************************************************************)
SessionIds == {"s1", "s2"}

Callers == 1..MaxCalls

\* the variables of the agent loop, which the pool's callers leave alone
agentVars == << options, pc, pool, loopVars, execVars, result, faults, closeCalls, thrownAt,
                execObs, runObs, fnVars >>

AgentUnused ==
    /\ InitCommon
    /\ fnIn = NoInput
    /\ options = [maxSteps |-> 1, planningInterval |-> 3, maxActionsPerStep |-> 10,
                  saveCookies |-> FALSE, resumeOptions |-> NoResume]
    /\ playwrightActions = << >>
    /\ pc = "pool"
    /\ pool = {}
    /\ page = NoPage
    /\ batch = << >>

InitPool ==
    /\ AgentUnused
    /\ browsers = << >>
    /\ launched = {}
    /\ closed = {}
    /\ poolCalls \in [Callers -> {PoolCall(op, sid) : op \in {"launch", "close"},
                                                     sid \in SessionIds}]
    /\ runs = << >>
    /\ actor = 0

\* the browser a call launches is named after the call
CallLaunchBrowser ==
    \E i \in Callers, ok \in BOOLEAN :
        /\ poolCalls[i].op = "launch"
        /\ Suspended(poolCalls[i])
        /\ ~ok => CanThrow(poolCalls[i])
        /\ LET x == BrowserPool_launchBrowser(poolCalls[i], i, ok)
           IN  /\ poolCalls' = [poolCalls EXCEPT ![i] = x.call]
               /\ browsers' = x.browsers
               /\ launched' = x.launched
               /\ closed' = x.closed
        /\ UNCHANGED << agentVars, runs, actor >>

CallCloseBrowser ==
    \E i \in Callers, ok \in BOOLEAN :
        /\ poolCalls[i].op = "close"
        /\ Suspended(poolCalls[i])
        /\ ~ok => CanThrow(poolCalls[i])
        /\ LET x == BrowserPool_closeBrowser(poolCalls[i], ok)
           IN  /\ poolCalls' = [poolCalls EXCEPT ![i] = x.call]
               /\ browsers' = x.browsers
               /\ launched' = x.launched
               /\ closed' = x.closed
        /\ UNCHANGED << agentVars, runs, actor >>

NextPool ==
    \/ CallLaunchBrowser
    \/ CallCloseBrowser

SpecPool == InitPool /\ [][NextPool]_vars

(***************************************************************************)
(* Concurrent executeGoal runs on the one pool.  Every variable of a run   *)
(* (sessionId, step, history, playwrightActions, consecutiveErrors,        *)
(* aiCallsCount) is a local of its executeGoal invocation; the pool is the *)
(* module-level singleton.  A run is suspended at its awaits, so the runs  *)
(* interleave there: inside launchBrowser and closeBrowser, and between    *)
(* loop iterations (an iteration touches nothing but the run's locals and  *)
(* its own page).  The session ids of the runs are distinct.               *)
(***************************************************************************)
Runs == {1, 2}

\* const sessionId = `agent_${Date.now()}_${random}`
RunSessionId(r) == << "agent_1", "agent_2" >>[r]

NewRun(r, n) ==
    [pc |-> "launch", maxSteps |-> n, step |-> 0, history |-> << >>,
     playwrightActions |-> << >>, consecutiveErrors |-> 0, aiCallsCount |-> 0,
     call |-> PoolCall("launch", RunSessionId(r)), exit |-> "none", result |-> "none",
     closeFailed |-> FALSE]

InitRuns ==
    /\ AgentUnused
    /\ browsers = << >>
    /\ launched = {}
    /\ closed = {}
    /\ poolCalls = << >>
    /\ runs \in [Runs -> UNION {{NewRun(r, n) : n \in 1..MaxRunSteps} : r \in Runs}]
    /\ \A r \in Runs : runs[r].call.sid = RunSessionId(r)
    /\ actor = 0

\* await browserPool.launchBrowser(sessionId, ...); await browserPool.getPage(...)
RunLaunch(r) ==
    /\ runs[r].pc = "launch"
    /\ \E ok \in BOOLEAN :
          /\ ~ok => CanThrow(runs[r].call)
          /\ LET x == BrowserPool_launchBrowser(runs[r].call, r, ok)
             IN  /\ runs' = [runs EXCEPT
                               ![r].call = IF x.call.pc = "threw"
                                           THEN PoolCall("close", RunSessionId(r))
                                           ELSE x.call,
                               ![r].pc = IF x.call.pc = "done" THEN "loop"
                                         ELSE IF x.call.pc = "threw" THEN "catch"
                                         ELSE "launch"]
                 /\ browsers' = x.browsers
                 /\ launched' = x.launched
                 /\ closed' = x.closed
    /\ actor' = r
    /\ UNCHANGED << agentVars, poolCalls >>

\* one pass of while (step < maxSteps) { ... }, or the loop's end: the step's
\* actions are recorded in the run's own history and replay log
RunStep(r) ==
    /\ runs[r].pc = "loop"
    /\ LET run == runs[r]
           closing == PoolCall("close", RunSessionId(r))
       IN  IF run.step >= run.maxSteps
           THEN runs' = [runs EXCEPT ![r].pc = "closing", ![r].exit = "maxSteps",
                                     ![r].call = closing]
           ELSE IF run.consecutiveErrors >= MAX_CONSECUTIVE_ERRORS
           THEN runs' = [runs EXCEPT ![r].pc = "closing", ![r].step = run.step + 1,
                                     ![r].exit = "needsHumanHelp", ![r].call = closing]
           ELSE \E outcome \in {"continue", "done", "throw"}, success \in BOOLEAN :
                   IF outcome = "throw"
                   THEN /\ success
                        /\ runs' = [runs EXCEPT ![r].pc = "catch",
                                                ![r].step = run.step + 1,
                                                ![r].call = closing]
                   ELSE runs' =
                          [runs EXCEPT
                             ![r].step = run.step + 1,
                             ![r].aiCallsCount = run.aiCallsCount + 1,
                             ![r].history =
                                 Append(run.history, [run |-> r, step |-> run.step + 1,
                                                      success |-> success]),
                             ![r].playwrightActions =
                                 IF success
                                 THEN Append(run.playwrightActions,
                                             [run |-> r, step |-> run.step + 1])
                                 ELSE run.playwrightActions,
                             ![r].consecutiveErrors =
                                 IF success THEN 0 ELSE run.consecutiveErrors + 1,
                             ![r].pc = IF outcome = "done" THEN "closing" ELSE "loop",
                             ![r].exit = IF outcome = "done" THEN "success" ELSE "none",
                             ![r].call = IF outcome = "done" THEN closing ELSE run.call]
    /\ actor' = r
    /\ UNCHANGED << agentVars, browsers, launched, closed, poolCalls >>

\* await browserPool.closeBrowser(sessionId); return { ... } on a closing exit
RunClose(r) ==
    /\ runs[r].pc = "closing"
    /\ \E ok \in BOOLEAN :
          /\ ~ok => CanThrow(runs[r].call)
          /\ LET x == BrowserPool_closeBrowser(runs[r].call, ok)
             IN  /\ runs' = [runs EXCEPT
                               ![r].call = IF x.call.pc = "threw"
                                           THEN PoolCall("close", RunSessionId(r))
                                           ELSE x.call,
                               ![r].pc = IF x.call.pc = "done" THEN "returned"
                                         ELSE IF x.call.pc = "threw" THEN "catch"
                                         ELSE "closing",
                               ![r].result = IF x.call.pc = "done" THEN runs[r].exit
                                             ELSE "none",
                               ![r].closeFailed = (x.call.pc = "threw")]
                 /\ browsers' = x.browsers
                 /\ launched' = x.launched
                 /\ closed' = x.closed
    /\ actor' = r
    /\ UNCHANGED << agentVars, poolCalls >>

\* catch (error) { try { await browserPool.closeBrowser(sessionId) } catch {} return }
RunCatch(r) ==
    /\ runs[r].pc = "catch"
    /\ \E ok \in BOOLEAN :
          /\ ~ok => CanThrow(runs[r].call)
          /\ LET x == BrowserPool_closeBrowser(runs[r].call, ok)
                 over == x.call.pc \in {"done", "threw"}
             IN  /\ runs' = [runs EXCEPT
                               ![r].call = x.call,
                               ![r].pc = IF over THEN "returned" ELSE "catch",
                               ![r].result = IF over THEN "error" ELSE "none",
                               ![r].closeFailed = (runs[r].closeFailed
                                                      \/ x.call.pc = "threw")]
                 /\ browsers' = x.browsers
                 /\ launched' = x.launched
                 /\ closed' = x.closed
    /\ actor' = r
    /\ UNCHANGED << agentVars, poolCalls >>

NextRuns ==
    \/ \E r \in Runs : RunLaunch(r)
    \/ \E r \in Runs : RunStep(r)
    \/ \E r \in Runs : RunClose(r)
    \/ \E r \in Runs : RunCatch(r)

SpecRuns == InitRuns /\ [][NextRuns]_vars

(***************************************************************************)
(* Claims.                                                                 *)
(***************************************************************************)
Returned == pc = "returned"

ExecutedPositions == {execLog[k].pos : k \in 1..Len(execLog)}

\* C1: provided no collaborator call throws and neither Planner nor Navigator
\* signals done, a run with maxSteps >= 5 that has just had five consecutive steps
\* without a successful action ends with needsHumanHelp = true, success = false and
\* a context carrying the current url, title and element list.
C1_FiveZeroStepsEscalate ==
    (Returned /\ faults = 0 /\ result.kind # "success" /\ options.maxSteps >= 5
        /\ zeroRun >= MAX_CONSECUTIVE_ERRORS)
    => /\ result.needsHumanHelp
       /\ ~result.success
       /\ result.humanHelpContext.currentUrl = page.url
       /\ result.humanHelpContext.currentTitle = page.title
       /\ result.humanHelpContext.elements = page.elements

\* C2: after every completed step consecutiveErrors equals the number of immediately
\* preceding consecutive completed steps whose batch had no successful (non-done)
\* action.
C2_CounterIsRollingCount ==
    pc = "loop" => consecutiveErrors = zeroRun

\* C3: every ExecutionResult (success, max steps, needs human help, error) is
\* returned only after browserPool.closeBrowser has been invoked for the session.
C3_ClosedBeforeEveryReturn ==
    /\ result.kind # "none" => closeCalls >= 1
    /\ Returned <=> result.kind \in {"success", "maxSteps", "needsHumanHelp", "error"}

C3_Witness ==
    Returned /\ result.kind = "needsHumanHelp" /\ closeCalls = 1 /\ SessionId \notin pool

\* C4 as stated: if an exception is raised at any point inside the step loop
\* (indexing, Planner call, Navigator call, executing or recording the batch), the
\* session close is invoked exactly once and a failure result is returned.
ExecutorErrors == { << "Browser error" >>, << "Wait error" >>, << "Reindex error" >> }

AbsorbedException ==
    \E k \in 1..Len(history) : history[k].error \in ExecutorErrors

LoopThrowPoints == {"index", "plan", "navigate", "record"}

C4_AnyLoopExceptionFailsRun ==
    (Returned /\ (thrownAt \in LoopThrowPoints \/ AbsorbedException))
    => (closeCalls = 1 /\ ~result.success)

\* C4 amended: if an exception propagates out of the step loop to the top-level
\* handler from indexing, the Planner call, the Navigator call or the recording of
\* the batch, the session close is invoked exactly once and a failure result is
\* returned; an exception of a browser call inside the executor is absorbed as a
\* failed action and does not by itself end the run (the close is still invoked
\* before the run returns); an exception thrown by the session close itself on an
\* exit path leads to a second invocation of the close and a failure result.
C4_PropagatedExceptionClosesOnce ==
    Returned =>
        /\ thrownAt \in LoopThrowPoints =>
              (closeCalls = 1 /\ ~result.success /\ result.kind = "error")
        /\ thrownAt = "close" =>
              (closeCalls = 2 /\ ~result.success /\ result.kind = "error")
        /\ (AbsorbedException /\ thrownAt = "none") => closeCalls = 1

C4_Witness ==
    Returned /\ thrownAt = "record" /\ closeCalls = 1 /\ result.kind = "error"

\* C5: in every result the replay log holds exactly the actions that really
\* succeeded (done excluded), one entry each, in execution order; a failed or
\* dropped action never appears in it.
C5_ReplayLogIsTheSuccesses ==
    (Returned /\ ~options.resumeOptions.present) => playwrightActions = executedOk

\* C6 as stated: if the re-index before action i (i >= 1) differs significantly
\* from the batch's snapshot, actions i and later are not executed and exactly the
\* first i actions were executed.
C6_ExactlyFirstIExecuted ==
    domAbortAt >= 1 => ExecutedPositions = 0..(domAbortAt - 1)

WaitErrors ==
    Cardinality({k \in 1..Len(results) : results[k].error = << "Wait error" >>})

\* C6 amended: no action is executed after a re-index that differs significantly
\* from the batch's snapshot; once such a re-index is seen before action i the
\* executor stops, actions i and later are not executed, and each of the first i
\* actions was either executed or, when its own re-index threw, failed without being
\* executed (exactly one action was executed when the change is seen before the
\* second action); actions i and later add no results.
C6_DomChangeDropsTheRest ==
    /\ \A k \in 1..Len(execLog) :
          execLog[k].pos > 0 => ~hasSignificantDOMChange(page.elements, execLog[k].seen)
    /\ domAbortAt >= 1 =>
          /\ pc = "record"
          /\ batchPos = domAbortAt
          /\ \A q \in ExecutedPositions : q < domAbortAt
          /\ ExecutedPositions \cup reindexFailed = 0..(domAbortAt - 1)
          /\ ExecutedPositions \cap reindexFailed = {}
          /\ 0 \in ExecutedPositions
          /\ domAbortAt = 1 => ExecutedPositions = {0}
          /\ Len(results) = domAbortAt + WaitErrors

C6_Witness ==
    domAbortAt = 1 /\ Len(batch) >= 3 /\ ExecutedPositions = {0}

\* C7 as stated (read generously: no browser call throws and the batch is not
\* stopped by a DOM change or a done action): an index-targeted action whose index is
\* absent from the snapshot fails with 'Element [i] not found', makes no browser
\* call, and the following actions of the batch are still executed.
AbsentAt(k) ==
    /\ execLog[k].action.type \in IndexTargeted
    /\ ~HasIndex(page.elements, execLog[k].action.index)

ExecutorReturned ==
    pc = "record" \/ batchPos >= Len(batch) \/ errorCount >= MAX_ERRORS

DoneExecuted == \E k \in 1..Len(execLog) : execLog[k].res.isDone

NotFoundResult(k) ==
    /\ execLog[k].res = ActionResult(FALSE, << "Element not found", execLog[k].action.index >>,
                                     FALSE)
    /\ execLog[k].call = NoCall

C7_FollowingActionsStillExecuted ==
    \A k \in 1..Len(execLog) :
        AbsentAt(k) =>
            /\ NotFoundResult(k)
            /\ (ExecutorReturned /\ faults = 0 /\ domAbortAt = -1 /\ ~DoneExecuted)
                => \A j \in (execLog[k].pos + 1)..(Len(batch) - 1) : j \in ExecutedPositions

\* C7 amended: an index-targeted action whose index is absent from the snapshot
\* fails only that action with 'Element [i] not found', makes no browser call and
\* does not throw; every action the executor goes on to execute acts on the element
\* of its own index in the snapshot; an action of the batch is left unexecuted only
\* if its re-index threw or the batch was stopped before it by the DOM-change check,
\* a done action or the cap of MAX_ERRORS failures.
C7_AbsentIndexFailsOnlyThatAction ==
    /\ pc \in {"exec", "record"}
    /\ \A k \in 1..Len(execLog) :
          /\ AbsentAt(k) => NotFoundResult(k)
          /\ (execLog[k].action.type \in IndexTargeted /\ ~AbsentAt(k)) =>
                execLog[k].call = << execLog[k].action.type,
                                     FindElement(page.elements,
                                                 execLog[k].action.index).selector >>
    /\ ExecutorReturned =>
          \A j \in (0..(Len(batch) - 1)) \ ExecutedPositions :
              \/ j \in reindexFailed
              \/ domAbortAt >= 0 /\ j >= domAbortAt
              \/ DoneExecuted /\ j >= batchPos
              \/ errorCount >= MAX_ERRORS /\ j >= batchPos

C7_Witness ==
    \E k, l \in 1..Len(execLog) :
        /\ AbsentAt(k)
        /\ execLog[l].pos > execLog[k].pos
        /\ execLog[l].action.type \in IndexTargeted
        /\ execLog[l].res.success

\* C8: the batch handed to the executor in any step holds at most maxActionsPerStep
\* actions, for every configured maxActionsPerStep.
C8_BatchWithinConfiguredCeiling ==
    pc \in {"exec", "record"} => Len(batch) <= options.maxActionsPerStep

\* C9 as stated: whenever the Planner returns done = true the run ends in that same
\* step with success = true, without a Navigator call or an executed action in that
\* step; done on step 1 gives zero Navigator calls, an empty history and an empty
\* replay log.
EndsInPlannerDoneStep ==
    /\ step = plannerDoneAt
    /\ navigatorCalls = navAtDone
    /\ pc \in {"plannerDone", "catch", "returned"}
    /\ (plannerDoneAt = 1 /\ ~options.resumeOptions.present) =>
          (navigatorCalls = 0 /\ history = << >> /\ playwrightActions = << >>)

C9_PlannerDoneIsSuccess ==
    plannerDoneAt > 0 =>
        /\ EndsInPlannerDoneStep
        /\ Returned => (result.success /\ result.kind = "success")

\* C9 amended: whenever the Planner returns done = true the run ends in that same
\* step without a Navigator call or an executed action in that step (on step 1: zero
\* Navigator calls, empty history, empty replay log); the result has success = true
\* unless browserPool.closeBrowser throws on that exit, in which case the top-level
\* handler returns success = false.
C9_PlannerDoneEndsTheRun ==
    plannerDoneAt > 0 =>
        /\ EndsInPlannerDoneStep
        /\ Returned =>
              /\ thrownAt \in {"none", "close"}
              /\ thrownAt = "none" => (result.success /\ result.kind = "success")
              /\ thrownAt = "close" => (~result.success /\ result.kind = "error")

C9_Witness ==
    /\ Returned /\ plannerDoneAt = 1 /\ result.success
    /\ navigatorCalls = 0 /\ history = << >> /\ playwrightActions = << >>

\* C10: in a run in which every collaborator call returns, the Planner always
\* returns done = false and the Navigator always returns a single wait action that
\* succeeds, the result is the max-steps failure after exactly maxSteps steps, with
\* exactly maxSteps Navigator calls and maxSteps history entries, and without
\* needsHumanHelp.
C10_StepBudget ==
    (Returned /\ faults = 0 /\ navAllWait /\ plannerDoneAt = 0) =>
        /\ result.kind = "maxSteps"
        /\ ~result.success
        /\ ~result.needsHumanHelp
        /\ step = options.maxSteps
        /\ navigatorCalls = options.maxSteps
        /\ Len(history) = options.maxSteps
        /\ \A k \in 1..Len(history) : history[k].operation = "wait" /\ history[k].success

C10_Witness ==
    /\ Returned /\ faults = 0 /\ navAllWait /\ plannerDoneAt = 0
    /\ options.maxSteps = 3 /\ Len(history) = 3 /\ result.kind = "maxSteps"

\* C11: once a done action of a batch is reached by the executor (and the session
\* close on the exit does not throw), no later action of the batch is executed, the
\* actions executed before it are recorded (history, and replay log if successful),
\* the done action is not added to the replay log, and the run returns success.
DonePosition == CHOOSE q \in ExecutedPositions :
                    \E k \in 1..Len(execLog) : execLog[k].pos = q /\ execLog[k].res.isDone

C11_DoneIsTerminal ==
    (DoneExecuted /\ thrownAt # "close" /\ ~options.resumeOptions.present) =>
        /\ \A q \in ExecutedPositions : q <= DonePosition
        /\ pc \in {"record", "navigatorDone", "returned"}
        /\ Returned =>
              /\ result.success
              /\ result.kind = "success"
              /\ playwrightActions = executedOk
              /\ Len(history) >= Len(execLog)
              /\ \A k \in 1..Len(execLog) :
                    LET h == history[Len(history) - Len(execLog) + k]
                    IN  /\ h.operation = execLog[k].action.type
                        /\ h.success = execLog[k].res.success

\* C12: executeGoal never propagates an exception that one of its collaborator
\* calls raises: once such an exception has been thrown the function is in its
\* handler or has returned a result with success = false and the exception message
\* as error (no needsHumanHelp); a failure of the close inside the handler is ignored.
C12_ExceptionsBecomeFailureResults ==
    thrownAt # "none" =>
        /\ pc \in {"catch", "returned"}
        /\ Returned =>
              /\ ~result.success
              /\ result.kind = "error"
              /\ result.error = thrownAt
              /\ ~result.needsHumanHelp

C12_Witness ==
    /\ Returned /\ thrownAt = "index" /\ result.kind = "error"
    /\ closeCalls = 1 /\ SessionId \in pool

\* C13: no failed action aborts the run: when no collaborator call throws, whatever
\* the actions of the batches are (index absent, unknown kind, null argument bag),
\* executeGoal never returns the fatal error outcome.
C13_NoFailedActionAbortsRun ==
    (Returned /\ faults = 0) => result.kind # "error"

\* C14: whenever an input_text action targets an element whose combined
\* text/placeholder/aria-label/selector matches one of the field patterns, the fill
\* action carries a valueSource whose fieldType is a field type the element matches,
\* for every data context (none, a resume profile with a value for the field, a
\* resume profile without it).
C14_FieldInference ==
    (fnIn.fn = "mapInputText" /\ fnOut.returned) =>
        ((\E k \in 1..Len(patterns) : PatternMatches(k, fnIn.element)) =>
            /\ fnOut.value.valueSource # NoValueSource
            /\ \E k \in 1..Len(patterns) :
                  /\ PatternMatches(k, fnIn.element)
                  /\ patterns[k].fieldType = fnOut.value.valueSource.fieldType)

\* C15: hasSignificantDOMChange(old, new) is true exactly when the element counts
\* differ by more than 20% of the old count, or more than 30% of the new elements
\* have a selector that does not occur in the old snapshot.
UnseenInNew(oldElements, newElements) ==
    Cardinality({k \in 1..Len(newElements) :
                    \A j \in 1..Len(oldElements) :
                        oldElements[j].selector # newElements[k].selector})

C15_DomChangeThresholds ==
    (fnIn.fn = "hasSignificantDOMChange" /\ fnOut.returned) =>
        (fnOut.value <=>
            \/ 5 * Abs(Len(fnIn.oldElements) - Len(fnIn.newElements)) > Len(fnIn.oldElements)
            \/ 10 * UnseenInNew(fnIn.oldElements, fnIn.newElements)
                  > 3 * Len(fnIn.newElements))

\* C16: once a call of drawBoundingBoxes is over, whether it returned the
\* screenshot or threw (injection, screenshot capture or removal failing), no
\* highlight container is present in the DOM.
C16_NoOverlayLeftBehind ==
    (fnIn.fn = "drawBoundingBoxes" /\ fnOut.returned) => fnOut.value.containers = 0

\* C17: whenever the Navigator's response is malformed or unparseable (text that is
\* not JSON, or JSON that carries no usable action list), the Navigator output is
\* exactly one wait action.
Malformed(response) ==
    \/ response.kind \in {"garbage", "missing"}
    \/ /\ response.kind = "array"
       /\ Len(response.items) > 0
       /\ \A k \in 1..Len(response.items) : ~IsObjectItem(response.items[k])

C17_MalformedGivesOneWait ==
    (fnIn.fn = "parseNavigatorResponse" /\ fnOut.returned /\ Malformed(fnIn.response))
        => fnOut.value = << WaitItem >>

\* C18: a Planner response that cannot be parsed makes the Planner return the safe
\* default (done = false, a generic continuation directive) instead of throwing; in
\* the loop that call does not end the run (the Navigator is run next) and leaves
\* consecutiveErrors as it was.
GenericDirective == "Continue with the current approach"

PlannerCallFellBack ==
    /\ plannerCalls' = plannerCalls + 1
    /\ faults' = faults
    /\ plannerOutput'.next_steps = GenericDirective

C18_PlannerParseFailureIsHarmless ==
    [][ /\ \A d \in BOOLEAN, n \in {"", "A"} :
              parsePlannerResponse(RawPlan("garbage", d, n))
                  = [present |-> TRUE, done |-> FALSE, next_steps |-> GenericDirective]
        /\ PlannerCallFellBack =>
              /\ ~plannerOutput'.done
              /\ pc' = "navigate"
              /\ consecutiveErrors' = consecutiveErrors
              /\ result' = result
              /\ thrownAt' = thrownAt ]_vars

C18_Witness ==
    /\ plannerOutput.next_steps = GenericDirective
    /\ pc = "navigate" /\ step = 2 /\ consecutiveErrors = 1 /\ plannerCalls = 2

\* C19: the in-batch failure cap counts consecutive failures: when no browser call
\* throws, executeMultiAction halts a batch before its end exactly when the last 3
\* actions it executed all failed; a success between failures restarts the count.
LastThreeFailed ==
    /\ Len(execLog) >= MAX_ERRORS
    /\ \A k \in (Len(execLog) - MAX_ERRORS + 1)..Len(execLog) : ~execLog[k].res.success

C19_CapCountsConsecutiveFailures ==
    (pc = "exec" /\ batchPos < Len(batch) /\ faults = 0)
        => (errorCount >= MAX_ERRORS <=> LastThreeFailed)

\* C20: the Planner is invoked on step 1 and then once every planningInterval
\* steps: consecutive invocations are exactly planningInterval steps apart, so every
\* invocation is on one of the steps 1, 1 + planningInterval, 1 + 2 * planningInterval, ...
C20_PlannerCadence ==
    [][ plannerCalls' = plannerCalls + 1 => (step - 1) % options.planningInterval = 0 ]_vars

\* C21: the escalation condition is checked before any AI call of a step: neither
\* the Planner nor the Navigator is invoked in a step that starts with
\* consecutiveErrors at MAX_CONSECUTIVE_ERRORS or more, so the counter never exceeds
\* MAX_CONSECUTIVE_ERRORS, and the aiCallsCount of a needs-human-help result is the
\* count reached when the previous step ended.
AfterAICall == {"navigate", "plannerDone", "exec", "record", "navigatorDone"}

C21_EscalationBeforeAICalls ==
    /\ [](/\ consecutiveErrors <= MAX_CONSECUTIVE_ERRORS
          /\ pc \in AfterAICall => consecutiveErrors < MAX_CONSECUTIVE_ERRORS
          /\ result.kind = "needsHumanHelp" =>
                (aiCallsCount = aiCallsAtStepStart
                    /\ aiCallsCount = plannerCalls + navigatorCalls))
    /\ [][ (plannerCalls' # plannerCalls \/ navigatorCalls' # navigatorCalls)
              => (consecutiveErrors < MAX_CONSECUTIVE_ERRORS
                    /\ consecutiveErrors' = consecutiveErrors) ]_vars

C21_Witness ==
    /\ Returned /\ result.kind = "needsHumanHelp"
    /\ consecutiveErrors = MAX_CONSECUTIVE_ERRORS
    /\ aiCallsCount = aiCallsAtStepStart /\ aiCallsCount > MAX_CONSECUTIVE_ERRORS

\* C22: index resolution uses the step's snapshot only: for every index-targeted
\* action of a batch, the selector the executor acts on and the selector written to
\* the replay log are both the selector of the element with that index in the
\* snapshot taken at the start of the step, also when a re-index made inside the
\* batch gives the index to a different element.
StepSelector(action) == FindElement(page.elements, action.index).selector

ReindexedElsewhere(k) ==
    /\ execLog[k].pos > 0
    /\ execLog[k].action.type \in IndexTargeted
    /\ HasIndex(execLog[k].seen, execLog[k].action.index)
    /\ HasIndex(page.elements, execLog[k].action.index)
    /\ FindElement(execLog[k].seen, execLog[k].action.index).selector
          # StepSelector(execLog[k].action)

C22_IndexResolvedInStepSnapshot ==
    /\ [](pc \in {"exec", "record"} =>
            \A k \in 1..Len(execLog) :
                (execLog[k].action.type \in IndexTargeted /\ execLog[k].call # NoCall) =>
                    /\ HasIndex(page.elements, execLog[k].action.index)
                    /\ execLog[k].call = << execLog[k].action.type,
                                            StepSelector(execLog[k].action) >>)
    /\ [][ BatchEnded =>
             \A k \in (Len(playwrightActions) + 1)..Len(playwrightActions') :
                 \/ playwrightActions'[k] = Pw("wait", "")
                 \/ \E j \in 1..Len(batch) :
                       /\ batch[j].type \in IndexTargeted
                       /\ HasIndex(page.elements, batch[j].index)
                       /\ playwrightActions'[k] = Pw(PwOperation(batch[j].type),
                                                     StepSelector(batch[j])) ]_vars

C22_Witness ==
    /\ pc = "loop"
    /\ \E k \in 1..Len(execLog) :
          /\ ReindexedElsewhere(k)
          /\ execLog[k].res.success
          /\ execLog[k].call = << "hover", "#b" >>
          /\ FindElement(execLog[k].seen, execLog[k].action.index).selector = "#a"
    /\ Len(playwrightActions) > 0
    /\ playwrightActions[Len(playwrightActions)] = Pw("hover", "#b")

\* C23: in every snapshot returned by getIndexedElements the indices are unique and
\* equal the element's position in the list (0, 1, ..., n-1): elements skipped as
\* duplicates, hidden, zero-sized or far off-viewport consume no index, so the list
\* has no gaps and holds exactly the elements whose first visit is not skipped.
FirstVisit(visits, k) == \A j \in 1..(k - 1) : visits[j].el # visits[k].el

Kept(visits) ==
    {visits[k].el : k \in {i \in 1..Len(visits) :
                              FirstVisit(visits, i) /\ visits[i].skip = "none"}}

C23_IndicesArePositions ==
    (fnIn.fn = "getIndexedElements" /\ fnOut.returned) =>
        /\ \A k \in 1..Len(fnOut.value) : fnOut.value[k].index = k - 1
        /\ \A j, k \in 1..Len(fnOut.value) :
              fnOut.value[j].index = fnOut.value[k].index => j = k
        /\ {fnOut.value[k].selector : k \in 1..Len(fnOut.value)} = Kept(fnIn.visits)
        /\ Len(fnOut.value) = Cardinality(Kept(fnIn.visits))

C23_Witness ==
    /\ fnIn.fn = "getIndexedElements" /\ fnOut.returned
    /\ fnIn.visits = << Visit(2, "hidden"), Visit(1, "none"), Visit(1, "none") >>
    /\ fnOut.value = << El(0, 1) >>

\* C24: when a run is resumed with previousActions, the replay log of every result
\* (success, max steps, escalation, error) begins with those previous actions,
\* unmodified and in their original order; the actions of the new run (resume
\* navigation, human correction, loop actions) are only appended after them, and the
\* caller's previousActions list is not mutated.
IsPrefix(p, q) == Len(p) <= Len(q) /\ SubSeq(q, 1, Len(p)) = p

C24_PreviousActionsKeptAsPrefix ==
    /\ [](options.resumeOptions.present =>
            IsPrefix(options.resumeOptions.previousActions, playwrightActions))
    /\ [][ /\ IsPrefix(playwrightActions, playwrightActions')
           /\ options'.resumeOptions.previousActions
                 = options.resumeOptions.previousActions ]_vars

C24_Witness ==
    /\ Returned /\ result.kind = "needsHumanHelp"
    /\ options.resumeOptions.previousActions = PreviousActions
    /\ \E k \in 1..Len(playwrightActions) : playwrightActions[k] = Pw("wait", "")
    /\ playwrightActions[Len(PreviousActions) + 1] = Pw("navigate", "u2")
    /\ SubSeq(playwrightActions, 1, Len(PreviousActions)) = PreviousActions

\* C25: standing directive: the planner guidance passed to the Navigator at a step is
\* the next_steps of the most recent Planner invocation (there is one, the Planner
\* runs on step 1); the stored directive stays the same across the steps in which
\* the Planner is not invoked and is replaced only by a new Planner output.
C25_StandingDirective ==
    [][ /\ navigatorCalls' = navigatorCalls + 1 =>
              /\ plannerOutput.present
              /\ plannerCalls >= 1
              /\ navGuidance' = plannerOutput.next_steps
              /\ plannerOutput' = plannerOutput
        /\ plannerCalls' = plannerCalls =>
              (plannerOutput' = plannerOutput /\ PlannerNextSteps' = PlannerNextSteps)
        /\ plannerOutput' # plannerOutput =>
              \E r \in PlannerResponses : plannerOutput' = parsePlannerResponse(r) ]_vars

C25_Witness ==
    /\ pc = "exec" /\ step = 2 /\ plannerCalls = 1 /\ navigatorCalls = 2
    /\ navGuidance = "A" /\ plannerOutput.next_steps = "A"

\* C26: the history is append-only and complete: when no collaborator call throws,
\* it grows by exactly one entry per ActionResult the executor returned, in
\* execution order, for successes and failures alike; nothing else adds to it,
\* existing entries are never modified or removed, and the raw action log grows in
\* lockstep with it during the loop.
C26_HistoryAppendOnlyComplete ==
    [][ /\ IsPrefix(history, history')
        /\ ~BatchEnded => history' = history
        /\ (BatchEnded /\ faults = 0) =>
              /\ Len(history') = Len(history) + Len(results)
              /\ \A k \in 1..Len(results) :
                    history'[Len(history) + k].success = results[k].success
        /\ step > 0 => Len(actions') - Len(actions) = Len(history') - Len(history) ]_vars

\* C27: in every result of executeGoal, aiCallsCount equals the number of Planner
\* invocations plus the number of Navigator invocations made during the run.
C27_AiCallsCountIsInvocations ==
    result.kind # "none" => aiCallsCount = plannerCalls + navigatorCalls

\* C28: on escalation (no collaborator call having thrown) the context reports the
\* last error and the last planner directive: humanHelpContext.lastError is the error of the most recent failed
\* action of the run whenever the history contains a failed action, and
\* suggestedAction is the next_steps of the most recent Planner output.
FailedEntries == {k \in 1..Len(history) : ~history[k].success}

MostRecentFailure == history[CHOOSE k \in FailedEntries : \A j \in FailedEntries : j <= k]

C28_EscalationContext ==
    (result.kind = "needsHumanHelp" /\ faults = 0) =>
        /\ FailedEntries # {} => result.humanHelpContext.lastError = MostRecentFailure.error
        /\ result.humanHelpContext.suggestedAction = plannerOutput.next_steps

\* C29 as stated: session cookies are persisted only when saveCookies is configured
\* and only on the two success paths (Planner done, Navigator done), always before
\* the session is closed; a failure of the persistence call is swallowed: the
\* session is still closed and the run still returns success = true.
SavedOnlyOnSuccessPaths ==
    /\ cookieSave.calls <= 1
    /\ cookieSave.calls = 1 =>
          /\ options.saveCookies
          /\ cookieSave.at \in {"plannerDone", "navigatorDone"}
          /\ cookieSave.closeCallsBefore = 0
          /\ closeCalls >= 1
    /\ (~options.saveCookies \/ result.kind \in {"maxSteps", "needsHumanHelp"}) =>
          cookieSave.calls = 0
    /\ (result.kind = "success" /\ options.saveCookies) => cookieSave.calls = 1

C29_SaveFailureIsSwallowed ==
    /\ SavedOnlyOnSuccessPaths
    /\ (Returned /\ cookieSave.failed) => (result.success /\ SessionId \notin pool)

\* C29 amended: session cookies are persisted only when saveCookies is configured
\* and only on the two success paths, always before the session close is invoked; a
\* failure of the persistence call is swallowed: the session close is still invoked
\* and the run returns success = true with the session closed, unless the close
\* itself throws, in which case the top-level handler invokes the close a second
\* time and returns success = false.
C29_SaveFailureLeavesOutcomeToClose ==
    /\ SavedOnlyOnSuccessPaths
    /\ (Returned /\ cookieSave.calls = 1) =>
          /\ thrownAt \in {"none", "close"}
          /\ thrownAt = "none" =>
                (result.success /\ result.kind = "success" /\ SessionId \notin pool
                    /\ closeCalls = 1)
          /\ thrownAt = "close" =>
                (~result.success /\ result.kind = "error" /\ closeCalls = 2)

C29_Witness ==
    /\ Returned /\ cookieSave.calls = 1 /\ cookieSave.failed
    /\ cookieSave.at = "navigatorDone"
    /\ result.success /\ SessionId \notin pool /\ closeCalls = 1

\* C30: a human correction that cannot be applied is skipped, not fatal: a direct
\* human action that fails, or an indexed-element correction whose index is absent
\* from the current snapshot or whose browser call fails, adds nothing to the replay
\* log or the raw action log and the run still enters the main loop; only a
\* successfully applied correction is logged, and it is logged before any loop
\* action.  (A throw of the snapshot call made for an indexed-element correction is
\* an exception of the run like any other.)
CorrectionOperation ==
    IF options.resumeOptions.humanCorrection.kind = "action"
    THEN options.resumeOptions.humanCorrection.action.operation
    ELSE options.resumeOptions.humanCorrection.operation

LoggedBeforeCorrection ==
    Len(options.resumeOptions.previousActions)
        + BoolToNat(options.resumeOptions.resumeUrl # "")

C30_FailedCorrectionIsSkipped ==
    /\ [](/\ correction = "applied" =>
                /\ Len(actions) >= 1
                /\ actions[1].success
                /\ actions[1].operation = CorrectionOperation
                /\ Len(playwrightActions) > LoggedBeforeCorrection
                /\ playwrightActions[LoggedBeforeCorrection + 1].operation
                      = CorrectionOperation
                /\ playwrightActions[LoggedBeforeCorrection + 1].selector
                      = actions[1].selector
          /\ (correction \in {"failed", "absent"} /\ step = 0) =>
                /\ pc = "loop"
                /\ actions = << >>
                /\ Len(playwrightActions) = LoggedBeforeCorrection)
    /\ [][ pc = "correct" =>
             /\ step = 0 /\ history = << >> /\ executedOk = << >>
             /\ correction' \in {"failed", "absent"} =>
                   /\ playwrightActions' = playwrightActions
                   /\ actions' = actions
                   /\ pc' = "loop"
                   /\ result' = result
             /\ correction' = "applied" =>
                   /\ Len(playwrightActions') = Len(playwrightActions) + 1
                   /\ Len(actions') = Len(actions) + 1
                   /\ pc' = "loop"
             /\ (playwrightActions' # playwrightActions \/ actions' # actions) =>
                   correction' = "applied" ]_vars

C30_Witness ==
    /\ correction = "failed" /\ faults = 1 /\ pc = "exec" /\ step = 1
    /\ options.resumeOptions.humanCorrection = ElementCorrection(1, "click")
    /\ actions = << >> /\ playwrightActions = PreviousActions

(***************************************************************************)
(* Runs under fairness: every collaborator call of executeGoal is awaited, *)
(* and a call that returns or throws lets the run take its next step, so   *)
(* a run that can take a step eventually takes one.                        *)
(***************************************************************************)
SpecLive == Spec /\ WF_vars(Next)

\* C31: every run of executeGoal terminates: the loop body is entered at most
\* maxSteps times, a batch holds (and so executes) at most 10 actions, and the run
\* eventually returns exactly one terminal result (success, max steps, needs human
\* help, error), which is never replaced afterwards.
TerminalKinds == {"success", "maxSteps", "needsHumanHelp", "error"}

C31_Terminates ==
    /\ [](/\ step <= options.maxSteps
          /\ Len(batch) <= NAVIGATOR_ACTION_LIMIT
          /\ Len(execLog) <= Len(batch)
          /\ (result.kind = "none") = (pc # "returned")
          /\ pc = "returned" => result.kind \in TerminalKinds)
    /\ <>(pc = "returned")
    /\ [][ /\ step' \in {step, step + 1}
           /\ step' = step + 1 => pc = "loop"
           /\ pc = "returned" => result' = result ]_vars

C31_Witness ==
    /\ pc = "returned" /\ result.kind = "maxSteps"
    /\ step = MaxSteps /\ options.maxSteps = MaxSteps
    /\ Len(history) = MaxHistory

\* C32: an unchanged page never aborts a batch: hasSignificantDOMChange(s, s) is
\* false for every snapshot s, the empty one included, and so it is for any
\* reordering of the same elements; the executor's break condition is this
\* function applied to the step snapshot and the re-index, so a re-index that
\* yields the same list does not stop the batch.
SameSelectors(oldElements, newElements) ==
    /\ Len(oldElements) = Len(newElements)
    /\ \A k \in 1..Len(oldElements) :
          /\ \E j \in 1..Len(newElements) :
                newElements[j].selector = oldElements[k].selector
          /\ \E j \in 1..Len(oldElements) :
                oldElements[j].selector = newElements[k].selector

C32_UnchangedPageIsNoChange ==
    (/\ fnIn.fn = "hasSignificantDOMChange"
     /\ fnOut.returned
     /\ SameSelectors(fnIn.oldElements, fnIn.newElements)) => ~fnOut.value

C32_Witness ==
    /\ fnIn.fn = "hasSignificantDOMChange"
    /\ fnOut.returned
    /\ Len(fnIn.oldElements) = MaxReorder
    /\ SameSelectors(fnIn.oldElements, fnIn.newElements)
    /\ fnIn.newElements # fnIn.oldElements
    /\ ~fnOut.value

\* C33: result/action alignment: executeMultiAction returns at most one ActionResult
\* per action of the batch and the i-th result is the outcome of the i-th action
\* (the results are a position-aligned prefix of the batch), also when the in-batch
\* re-index or the wait after an action throws.
C33_ResultsAlignedWithBatch ==
    /\ Len(results) <= Len(batch)
    /\ Len(results) <= batchPos
    /\ \A k \in 1..Len(execLog) :
          /\ execLog[k].pos + 1 <= Len(results)
          /\ results[execLog[k].pos + 1] = execLog[k].res
    /\ \A i \in reindexFailed :
          /\ i + 1 <= Len(results)
          /\ ~results[i + 1].success

\* C34: the defensive re-check never fires: whenever the loop decides whether to run
\* the Planner, the stored Planner output is absent or has done = false (a done
\* output ends the run in the step that produced it), so the Planner is invoked at
\* step s if and only if s = 1 or s is a multiple of planningInterval.
OnPlanningStep == step = 1 \/ step % options.planningInterval = 0

C34_RecheckNeverFires ==
    /\ [](/\ pc \in {"decide", "navigate", "exec", "record", "loop", "navigatorDone"}
                => ~plannerOutput.done
          /\ pc = "decide" => (shouldRunPlanner <=> OnPlanningStep))
    /\ [][ /\ plannerCalls' = plannerCalls + 1 => (pc = "decide" /\ OnPlanningStep)
           /\ (pc = "decide" /\ ~EscalationDue) =>
                 (plannerCalls' = plannerCalls + 1 <=> OnPlanningStep)
           /\ (pc = "decide" /\ ~EscalationDue /\ ~OnPlanningStep) =>
                 navigatorCalls' = navigatorCalls + 1 ]_vars

C34_Witness ==
    /\ pc = "decide" /\ step = 5 /\ options.planningInterval = 2
    /\ plannerCalls = 3 /\ navigatorCalls = 4
    /\ plannerOutput.present /\ ~plannerOutput.done

\* C35 (as stated): the wait action substituted for an unparseable Navigator response
\* is treated like a model-chosen action: when it succeeds it is added to history
\* and to the replay log and the step counts as a step with a success, resetting the
\* escalation counter to 0; consequently a run in which every Navigator response is
\* unparseable never escalates and ends at the step budget.
WaitRecord == [operation |-> "wait", index |-> NoIndex, success |-> TRUE, error |-> NoError]

FallbackWaitIsRecorded ==
    /\ [](navFallback.last /\ pc \in {"exec", "record"} => batch = << WaitItem >>)
    /\ [][ (/\ navFallback.last
            /\ pc \in {"exec", "record"}
            /\ pc' \notin {"exec", "record"}
            /\ results = << ActionResult(TRUE, NoError, FALSE) >>) =>
               /\ history' = Append(history, WaitRecord)
               /\ playwrightActions' = Append(playwrightActions, Pw("wait", ""))
               /\ consecutiveErrors' = 0
               /\ pc' = "loop" ]_vars

C36_EmptyBatchIsZeroSuccessStep ==
    /\ [](/\ (pc \in {"exec", "record"} /\ batch = << >>) =>
                (pc = "exec" /\ results = << >> /\ execLog = << >>)
          /\ (pc = "decide" /\ emptyRun >= MAX_CONSECUTIVE_ERRORS) => EscalationDue
          /\ (pc \in {"loop", "decide"}) => consecutiveErrors >= emptyRun)
    /\ [][ /\ (pc = "exec" /\ batch = << >>) =>
                /\ history' = history
                /\ actions' = actions
                /\ playwrightActions' = playwrightActions
                /\ executedOk' = executedOk
                /\ consecutiveErrors' = consecutiveErrors + 1
                /\ emptyRun' = emptyRun + 1
                /\ pc' = "loop"
           /\ (pc = "decide" /\ emptyRun >= MAX_CONSECUTIVE_ERRORS) =>
                /\ closeCalls' = closeCalls + 1
                /\ plannerCalls' = plannerCalls
                /\ navigatorCalls' = navigatorCalls
                /\ pc' = "returned" => result'.needsHumanHelp ]_vars

C36_Witness ==
    /\ Returned /\ result.needsHumanHelp /\ emptyRun = MAX_CONSECUTIVE_ERRORS
    /\ step = 7 /\ Len(history) = 1 /\ history[1].success
    /\ Len(playwrightActions) = 1 /\ consecutiveErrors = MAX_CONSECUTIVE_ERRORS

\* C37: if browserPool.closeBrowser throws on a non-exception exit path (Planner
\* done, Navigator done, escalation, max steps), the exception is caught by the
\* top-level handler: closeBrowser is invoked a second time for the same session and
\* the run returns success = false with the close error and without needsHumanHelp,
\* even though the goal had been completed or escalation had been decided.
ClosingExit ==
    \/ pc \in {"plannerDone", "navigatorDone"}
    \/ pc = "decide" /\ EscalationDue
    \/ pc = "loop" /\ ~LoopCondition

C37_CloseFailureOnExitBecomesError ==
    /\ [](/\ thrownAt = "close" =>
                /\ pc \in {"catch", "returned"}
                /\ pc = "catch" => (closeCalls = 1 /\ result = NoResult)
          /\ (Returned /\ thrownAt = "close") =>
                /\ closeCalls = 2
                /\ result = Result("error", FALSE, "close", FALSE, NoContext))
    /\ [][ /\ (thrownAt' = "close" /\ thrownAt # "close") =>
                (ClosingExit /\ closeCalls = 0 /\ closeCalls' = 1 /\ pc' = "catch")
           /\ (pc = "catch" /\ thrownAt = "close") =>
                (closeCalls' = 2 /\ pc' = "returned") ]_vars

C37_Witness ==
    /\ Returned /\ thrownAt = "close" /\ closeCalls = 2
    /\ EscalationDue /\ ~result.needsHumanHelp /\ ~result.success

\* C38: BrowserPool keeps at most one browser per session id: for any interleaving
\* of launchBrowser calls with the same sessionId (including calls that overlap at
\* their await points), at most one browser is launched and open for that id and
\* every browser launched by a completed call is the one registered in the pool
\* under it, so that closeBrowser(sessionId) closes every browser launched for it.
OpenFor(sid) == {x \in launched : x.sid = sid /\ x.browser \notin closed}

LaunchCompleted(b) ==
    \E i \in DOMAIN poolCalls :
        poolCalls[i].op = "launch" /\ poolCalls[i].pc = "done" /\ poolCalls[i].browser = b

C38_OneBrowserPerSession ==
    \A sid \in SessionIds :
        /\ Cardinality(OpenFor(sid)) <= 1
        /\ \A x \in OpenFor(sid) :
              LaunchCompleted(x.browser) =>
                  (MapHas(browsers, sid) /\ browsers[sid] = x.browser)

\* C39: concurrent runs are isolated: for two executeGoal runs with distinct session
\* ids interleaved in any order, a run's history, replay log and counters change
\* only in that run's own steps and hold only its own entries; a step of a run
\* registers, closes or removes no session but its own, so the other run's session
\* stays in the pool until that run ends; and once both runs have returned without
\* a failed browser close, neither session remains in the pool.
OwnEntries(r) ==
    /\ \A k \in 1..Len(runs[r].history) : runs[r].history[k].run = r
    /\ \A k \in 1..Len(runs[r].playwrightActions) : runs[r].playwrightActions[k].run = r

SessionHeld(r) ==
    MapHas(browsers, RunSessionId(r)) /\ browsers[RunSessionId(r)] = r

BrowserOf(m, sid) == IF MapHas(m, sid) THEN m[sid] ELSE NoBrowser

C39_ConcurrentRunsAreIsolated ==
    /\ [](\A r \in Runs :
             /\ OwnEntries(r)
             /\ runs[r].pc = "loop" => SessionHeld(r)
             /\ (runs[r].pc = "closing" /\ runs[r].call.pc \in {"start", "close"})
                    => SessionHeld(r))
    /\ []((\A r \in Runs : runs[r].pc = "returned" /\ ~runs[r].closeFailed) =>
             (browsers = << >> /\ \A r \in Runs : ~MapHas(browsers, RunSessionId(r))))
    /\ [][ /\ \A r \in Runs : r # actor' => runs'[r] = runs[r]
           /\ \A r \in Runs :
                 BrowserOf(browsers', RunSessionId(r)) # BrowserOf(browsers, RunSessionId(r))
                    => r = actor'
           /\ \A b \in closed' \ closed : b = actor' ]_vars

C39_Witness ==
    /\ runs[1].pc = "returned" /\ runs[1].result = "success" /\ 1 \in closed
    /\ Len(runs[1].history) = 1
    /\ runs[2].pc = "loop" /\ runs[2].step = 1 /\ Len(runs[2].history) = 1
    /\ DOMAIN browsers = {RunSessionId(2)}
    /\ actor = 1

====
